---- MODULE Spec2Model ----
(***************************************************************************)
(* A model of the GitHub commit collector: the API transport               *)
(* (github_client.py), the branch resolver (branch_detector.py), the       *)
(* commit fetcher (github_client.py, commit_processor.py) and the          *)
(* collection orchestrator (data_collector.py).                            *)
(*                                                                         *)
(* Each component is a state machine over its own variables; a             *)
(* specification runs one component and leaves the others idle.            *)
(***************************************************************************)
EXTENDS Integers, Sequences, FiniteSets, TLC

VARIABLES
    \* ---- API transport: one _make_request call of one client
    t_cfg,        \* the client's configuration: max_retries, rate_limit_buffer
    t_pc,         \* position of the call
    t_attempt,    \* number of API requests sent so far by this call
    t_now,        \* the clock, in seconds
    t_rate,       \* outcome of the last rate-limit status query
    t_slept,      \* seconds slept by the last _check_rate_limit
    t_issuedAt,   \* clock value at which the last API request was sent
    t_queries,    \* number of rate-limit status queries made so far by this call
    t_resp,       \* what the last session.get of an API request came to
    t_outs,       \* outcome of every attempt, in order
    t_waits,      \* backoff delay slept after every failed, retried attempt
    t_result      \* what the call gave its caller

tvars == <<t_cfg, t_pc, t_attempt, t_now, t_rate, t_slept, t_issuedAt,
           t_queries, t_resp, t_outs, t_waits, t_result>>

VARIABLES
    \* ---- commit listing: one get_commits call
    g_in,         \* the call's per_page argument and what the provider answers
    g_pc,         \* position of the call
    g_page,       \* the local variable page
    g_all,        \* the local variable all_commits; the result once returned
    g_reqs        \* the page requests made so far, in order

gvars == <<g_in, g_pc, g_page, g_all, g_reqs>>

VARIABLES
    \* ---- branch resolver: one BranchDetector and the calls made on it
    b_cache,      \* _branch_cache: repository key -> branch, NoBranch when absent
    b_call,       \* the call in progress, or the last call once it is done
    b_vlog,       \* the validate_branch invocations of that call, in order
    b_first,      \* per repository: the value of the first successful detection
                  \* since the cache was last cleared (NoBranch: none yet)
    b_replaced,   \* per repository: the fallback search has rewritten the entry
                  \* since that detection
    b_cleared     \* clear_cache has run and no detect_default_branch has run
                  \* since; the repositories whose entry it removed

bvars == <<b_cache, b_call, b_vlog, b_first, b_replaced, b_cleared>>

VARIABLES
    \* ---- collection orchestrator: one collect_multiple_repositories call
    c_cfg,        \* the DataCollector: fetch_detailed_commits, auto_detect_branch
    c_scope,      \* which inputs the run draws its repositories from
    c_n,          \* len(repos_config)
    c_pc,         \* position of the call
    c_i,          \* number of repositories the loop has been through
    c_all,        \* the local variable all_commits; the result once returned
    c_log,        \* per repository, what collect_repository_commits came to
    c_last,       \* the last collect_repository_commits call: input and outcome
    c_cache,      \* _branch_cache of the collector's BranchDetector
    c_global      \* the argument global_filters

cvars == <<c_cfg, c_scope, c_n, c_pc, c_i, c_all, c_log, c_last, c_cache,
           c_global>>

VARIABLES
    \* ---- team mapping and commit filtering: one call of a pure function
    p_in,         \* the function called and its arguments
    p_pc,         \* position of the call
    p_out,        \* the values returned so far, in order
    p_mapper,     \* the TeamMapper: default_team and the dict username_to_team
    p_added       \* the add_mapping calls made on the mapper, in order

pvars == <<p_in, p_pc, p_out, p_mapper, p_added>>

VARIABLES
    \* ---- the command line entry point: one run of main
    m_in,         \* the environment, the configuration files and the arguments
    m_pc,         \* position of the run
    m_n,          \* len(repos_config)
    m_i,          \* number of repositories collect_multiple_repositories is through
    m_all,        \* all_commits of collect_multiple_repositories, then of main
    m_http,       \* number of API requests sent so far (GET /rate_limit aside)
    m_exported,   \* number of commits written by the exporter; NotExported if none
    m_status,     \* the exit status; NoStatus while main runs
    m_run,        \* the repository being collected: where its collection stands
    m_cache       \* _branch_cache of the collector's BranchDetector

mvars == <<m_in, m_pc, m_n, m_i, m_all, m_http, m_exported, m_status, m_run,
           m_cache>>

vars == <<tvars, gvars, bvars, cvars, pvars, mvars>>

\* What the actions of one component leave alone: the other components.
t_others == <<gvars, bvars, cvars, pvars, mvars>>
g_others == <<tvars, bvars, cvars, pvars, mvars>>
b_others == <<tvars, gvars, cvars, pvars, mvars>>
c_others == <<tvars, gvars, bvars, pvars, mvars>>
p_others == <<tvars, gvars, bvars, cvars, mvars>>
m_others == <<tvars, gvars, bvars, cvars, pvars>>

(***************************************************************************)
(* Bounds of the model.                                                    *)
(***************************************************************************)
MaxCfgRetries == 4    \* max_retries given to the client ranges over 1..MaxCfgRetries
MaxBuffer     == 1    \* rate_limit_buffer ranges over 0..MaxBuffer
MaxRemaining  == 2    \* reported remaining quota ranges over 0..MaxRemaining
MaxReset      == 2    \* reported reset time ranges over 0..MaxReset
MaxStart      == 1    \* the clock starts in 0..MaxStart
MaxPages      == 3    \* the provider holds at most MaxPages non-final pages
PartialSize   == 37   \* size of a partly filled page
BigPerPage    == 101  \* a per_page argument above the provider's page cap
MaxCommits    == 3    \* a listing holds at most MaxCommits commits (one repository)
MaxRepos      == 3    \* repos_config holds at most MaxRepos repositories
MaxFiltered   == 2    \* repositories of a run that is looked at for its filters
MaxAttemptNumber == 6 \* the backoff delay is looked at for the attempts 1..MaxAttemptNumber
MaxDate       == 3    \* commit dates and date bounds range over 1..MaxDate
MaxFilterLen  == 3    \* filter_commits is given at most MaxFilterLen commits
MaxAdded      == 2    \* add_mapping is called at most MaxAdded times on a mapper
MaxConfigured == 2    \* repositories.yaml holds at most MaxConfigured enabled repositories
MaxListedPages == 2   \* pages the provider holds for a repository listed page by page

(***************************************************************************)
(* API transport                                                           *)
(***************************************************************************)
\* The retry policy of the decorator of _make_request.
StopAfterAttempt == 3
WaitMultiplier   == 1
WaitMin          == 2
WaitMax          == 10
WaitExpBase      == 2

Bodies   == {"b1", "b2"}
NoBody   == "none"
Statuses == {200, 403, 404, 500}

\* response.text, a sequence of characters: "API rate limit", "Rate Limit!",
\* "Forbidden" and "ratelimit".
TextRateLimitLower == <<"A", "P", "I", " ", "r", "a", "t", "e", " ", "l", "i", "m", "i", "t">>
TextRateLimitMixed == <<"R", "a", "t", "e", " ", "L", "i", "m", "i", "t", "!">>
TextForbidden      == <<"F", "o", "r", "b", "i", "d", "d", "e", "n">>
TextRateLimitGlued == <<"r", "a", "t", "e", "l", "i", "m", "i", "t">>
Texts == {TextRateLimitLower, TextRateLimitMixed, TextForbidden, TextRateLimitGlued}

\* The string "rate limit".
RateLimitText == <<"r", "a", "t", "e", " ", "l", "i", "m", "i", "t">>

UpperCase == <<"A", "B", "C", "D", "E", "F", "G", "H", "I", "J", "K", "L", "M",
               "N", "O", "P", "Q", "R", "S", "T", "U", "V", "W", "X", "Y", "Z">>
LowerCase == <<"a", "b", "c", "d", "e", "f", "g", "h", "i", "j", "k", "l", "m",
               "n", "o", "p", "q", "r", "s", "t", "u", "v", "w", "x", "y", "z">>

\* str.lower()
lower_char(c) ==
    IF \E i \in 1..Len(UpperCase) : UpperCase[i] = c
    THEN LowerCase[CHOOSE i \in 1..Len(UpperCase) : UpperCase[i] = c]
    ELSE c
lower(text) == [i \in 1..Len(text) |-> lower_char(text[i])]

\* "sub in text"
contains(sub, text) ==
    \E i \in 1..(Len(text) - Len(sub) + 1) :
        SubSeq(text, i, i + Len(sub) - 1) = sub

\* A test for the indicator that does not fold the letter case.
has_rate_limit_text_exact(text) == contains(RateLimitText, text)

\* "rate limit" in response.text.lower()
has_rate_limit_text(text) == contains(RateLimitText, lower(text))

\* What one session.get can come to: no response at all (connection error or
\* timeout), or a response with a status, a text and a parsed body.
NetworkFailure == [net |-> TRUE, status |-> 0, text |-> <<>>, body |-> NoBody]
\* The body is parsed from a response only when its status is accepted.
HttpResponses  ==
    [net : {FALSE}, status : {200}, text : Texts, body : Bodies] \cup
    [net : {FALSE}, status : Statuses \ {200}, text : Texts, body : {NoBody}]
Responses      == {NetworkFailure} \cup HttpResponses
NoResponse     == [net |-> FALSE, status |-> 0, text |-> <<>>, body |-> NoBody]

\* Outcomes of one attempt, as the body of _make_request classifies them.
Returned(b)    == [kind |-> "ok", status |-> 200, body |-> b]
Raised(k, s)   == [kind |-> k, status |-> s, body |-> NoBody]

Max(a, b) == IF a >= b THEN a ELSE b
Min(a, b) == IF a <= b THEN a ELSE b

RECURSIVE Pow(_, _)
Pow(b, e) == IF e = 0 THEN 1 ELSE b * Pow(b, e - 1)

\* One pass through the body of _make_request after the rate-limit check.
attempt_outcome(resp) ==
    IF resp.net
    THEN Raised("network", 0)
    ELSE IF resp.status = 403 /\ has_rate_limit_text(resp.text)
    THEN Raised("ratelimit", 403)
    ELSE IF resp.status >= 400
    THEN Raised("http", resp.status)
    ELSE Returned(resp.body)

\* retry_if_exception_type((RequestException, RateLimitError)): HTTPError and
\* the connection and timeout errors are RequestExceptions.
IsRequestException(out) == out.kind \in {"network", "http"}
retry_if(out) == IsRequestException(out) \/ out.kind = "ratelimit"

\* A retry policy that allows one attempt more.
stop_after_late(client, attempt_number) == attempt_number >= StopAfterAttempt + 1

\* stop_after_attempt(3): the client's max_retries is stored and not read.
stop_after(client, attempt_number) == attempt_number >= StopAfterAttempt

\* wait_exponential(multiplier=1, min=2, max=10) after attempt attempt_number.
wait_unclamped(attempt_number) == WaitMultiplier * Pow(WaitExpBase, attempt_number - 1)

\* A backoff that sleeps the unclamped delay.
wait_exponential_unclamped(attempt_number) == wait_unclamped(attempt_number)

wait_exponential(attempt_number) ==
    Max(Max(0, WaitMin), Min(wait_unclamped(attempt_number), WaitMax))

Clients == [max_retries : 1..MaxCfgRetries, rate_limit_buffer : 0..MaxBuffer]

\* What the query of the rate-limit status comes to: a failure (no response,
\* a status that raise_for_status rejects, a body without the fields read), or
\* the remaining quota and the reset time.
RateFailures == {"network", "status", "malformed"}
RateFailure(why) == [ok |-> FALSE, why |-> why, remaining |-> 0, reset |-> 0]
NoRate == RateFailure("no query")
RateReadings ==
    {RateFailure(why) : why \in RateFailures} \cup
    [ok : {TRUE}, why : {"read"}, remaining : 0..MaxRemaining, reset : 0..MaxReset]

\* A _check_rate_limit without its try/except.
rate_check_raising(rate) == ~rate.ok

\* "except Exception" of _check_rate_limit: no failure of the query leaves it.
rate_check_raises(rate) == FALSE

\* A retry that resumes after the rate-limit check.
retry_entry_send == "send"

\* The decorator wraps the whole of _make_request: a retry starts at its first
\* statement, self._check_rate_limit().
retry_entry == "check"

\* A threshold test that lets remaining = buffer pass.
below_buffer_strict(remaining, buffer) == remaining < buffer

\* The threshold test of _check_rate_limit.
below_buffer(remaining, buffer) == remaining <= buffer

\* Seconds _check_rate_limit sleeps on reading `rate` at clock `now`.
rate_limit_sleep(client, rate, now) ==
    IF rate.ok /\ below_buffer(rate.remaining, client.rate_limit_buffer)
    THEN LET wait_seconds == rate.reset - now + 1
         IN  IF wait_seconds > 0 THEN wait_seconds ELSE 0
    ELSE 0

TInit ==
    /\ t_cfg \in Clients
    /\ t_pc = "idle"
    /\ t_attempt = 0
    /\ t_now \in 0..MaxStart
    /\ t_rate = NoRate
    /\ t_slept = 0
    /\ t_issuedAt = 0
    /\ t_queries = 0
    /\ t_resp = NoResponse
    /\ t_outs = <<>>
    /\ t_waits = <<>>
    /\ t_result = Raised("none", 0)

\* A caller enters _make_request.
make_request ==
    /\ t_pc = "idle"
    /\ t_pc' = "check"
    /\ UNCHANGED <<t_cfg, t_attempt, t_now, t_rate, t_slept, t_issuedAt,
                   t_queries, t_resp, t_outs, t_waits, t_result>>
    /\ UNCHANGED t_others

\* _check_rate_limit: query the status endpoint; a failure of the query is
\* swallowed; sleep past the reset time when the quota is at the buffer.
check_rate_limit ==
    /\ t_pc = "check"
    /\ \E rate \in RateReadings :
          /\ t_rate' = rate
          /\ t_slept' = rate_limit_sleep(t_cfg, rate, t_now)
          /\ t_now' = t_now + rate_limit_sleep(t_cfg, rate, t_now)
          /\ t_pc' = IF rate_check_raises(rate) THEN "raised" ELSE "send"
          /\ t_result' = IF rate_check_raises(rate)
                         THEN Raised("ratecheck", 0) ELSE t_result
    /\ t_queries' = t_queries + 1
    /\ UNCHANGED <<t_cfg, t_attempt, t_issuedAt, t_resp, t_outs, t_waits>>
    /\ UNCHANGED t_others

\* The request itself, and what the retry decorator does with its outcome.
send_request ==
    /\ t_pc = "send"
    /\ \E resp \in Responses :
          LET out == attempt_outcome(resp)
              n   == t_attempt + 1
          IN  /\ t_attempt' = n
              /\ t_resp' = resp
              /\ t_issuedAt' = t_now
              /\ t_outs' = Append(t_outs, out)
              /\ IF out.kind = "ok"
                 THEN /\ t_pc' = "returned"
                      /\ t_result' = out
                 ELSE IF ~retry_if(out)
                 THEN /\ t_pc' = "raised"
                      /\ t_result' = out
                 ELSE IF stop_after(t_cfg, n)
                 THEN /\ t_pc' = "raised"
                      /\ t_result' = [kind |-> "RetryError", status |-> out.status,
                                      body |-> NoBody]
                 ELSE /\ t_pc' = "backoff"
                      /\ t_result' = t_result
    /\ UNCHANGED <<t_cfg, t_now, t_rate, t_slept, t_queries, t_waits>>
    /\ UNCHANGED t_others

\* The decorator sleeps the backoff delay, then calls the function again.
backoff ==
    /\ t_pc = "backoff"
    /\ t_waits' = Append(t_waits, wait_exponential(t_attempt))
    /\ t_now' = t_now + wait_exponential(t_attempt)
    /\ t_pc' = retry_entry
    /\ UNCHANGED <<t_cfg, t_attempt, t_rate, t_slept, t_issuedAt, t_queries,
                   t_resp, t_outs, t_result>>
    /\ UNCHANGED t_others

TNext == make_request \/ check_rate_limit \/ send_request \/ backoff

\* get_team_members, given what its _make_request came to: the members, []
\* for an HTTPError whose response has status 404, and the exception as it is
\* otherwise. A RetryError is no HTTPError.
EmptyList == "[]"
get_team_members(result) ==
    IF result.kind = "ok" THEN result
    ELSE IF result.kind = "http" /\ result.status = 404 THEN Returned(EmptyList)
    ELSE result

TIdle ==
    /\ t_cfg = [max_retries |-> 3, rate_limit_buffer |-> 0]
    /\ t_pc = "off"
    /\ t_attempt = 0
    /\ t_now = 0
    /\ t_rate = NoRate
    /\ t_slept = 0
    /\ t_issuedAt = 0
    /\ t_queries = 0
    /\ t_resp = NoResponse
    /\ t_outs = <<>>
    /\ t_waits = <<>>
    /\ t_result = Raised("none", 0)

(***************************************************************************)
(* Commit listing: get_commits                                             *)
(***************************************************************************)
PageCap          == 100   \* "per_page": min(per_page, 100)
DefaultPerPage   == 100   \* per_page: int = 100
ValidatePerPage  == 1     \* validate_branch asks for per_page=1

PerPageArgs == {ValidatePerPage, DefaultPerPage, BigPerPage}

\* The per_page parameter sent to the provider.
requested_per_page(per_page) == Min(per_page, PageCap)

\* Commits are named by their position in the provider's history.
PageItems(k, n, r) == [i \in 1..n |-> (k - 1) * r + i]

\* The provider never answers with more items than were asked for.
SizeChoices(r) == {0, r} \cup {s \in {1, PartialSize} : s < r}

RECURSIVE SizeSeqs(_, _)
SizeSeqs(r, n) ==
    IF n = 0 THEN {<<>>}
    ELSE SizeSeqs(r, n - 1) \cup
         {Append(q, s) : q \in {x \in SizeSeqs(r, n - 1) : Len(x) = n - 1},
                         s \in SizeChoices(r)}

PagesOf(sizes, r) == [k \in 1..Len(sizes) |-> PageItems(k, sizes[k], r)]

\* The pages of a history that grows by one commit between two page
\* requests: every page starts with the commit the page before ended with.
DriftedItems(k, n, r) == [i \in 1..n |-> (k - 1) * r + i - (k - 1)]
DriftedPagesOf(sizes, r) ==
    [k \in 1..Len(sizes) |-> DriftedItems(k, sizes[k], r)]

\* failAt = 0: every page request succeeds; failAt = k: the request for page k
\* ends in an exception of _make_request.
GetCommitsInputs ==
    UNION {[per_page : {p},
            pages : {PagesOf(q, requested_per_page(p)) :
                        q \in SizeSeqs(requested_per_page(p), MaxPages)} \cup
                    {DriftedPagesOf(q, requested_per_page(p)) :
                        q \in SizeSeqs(requested_per_page(p), MaxPages)},
            failAt : 0..MaxPages] : p \in PerPageArgs}

\* The provider's answer to the request for page k: past its last page it
\* answers with an empty list.
Respond(in, k) == IF k <= Len(in.pages) THEN in.pages[k] ELSE <<>>

\* A last-page test that also stops on a full page.
last_page_full(commits, per_page) == Len(commits) <= per_page

\* "if len(commits) < per_page: break"
last_page(commits, per_page) == Len(commits) < per_page

GInit ==
    /\ g_in \in GetCommitsInputs
    /\ g_pc = "idle"
    /\ g_page = 0
    /\ g_all = <<>>
    /\ g_reqs = <<>>

GIdle ==
    /\ g_in = [per_page |-> DefaultPerPage, pages |-> <<>>, failAt |-> 0]
    /\ g_pc = "off"
    /\ g_page = 0
    /\ g_all = <<>>
    /\ g_reqs = <<>>

\* get_commits up to its loop: all_commits = [], page = 1.
get_commits ==
    /\ g_pc = "idle"
    /\ g_pc' = "loop"
    /\ g_page' = 1
    /\ g_all' = <<>>
    /\ UNCHANGED <<g_in, g_reqs>>
    /\ UNCHANGED g_others

\* One iteration of "while True".
fetch_page ==
    /\ g_pc = "loop"
    /\ g_reqs' = Append(g_reqs, [page |-> g_page,
                                 per_page |-> requested_per_page(g_in.per_page)])
    /\ IF g_in.failAt = g_page
       THEN /\ g_pc' = "raised"
            /\ g_all' = <<>>
            /\ g_page' = g_page
       ELSE LET commits == Respond(g_in, g_page)
            IN  IF commits = <<>>
                THEN /\ g_pc' = "returned"
                     /\ UNCHANGED <<g_all, g_page>>
                ELSE /\ g_all' = g_all \o commits
                     /\ IF last_page(commits, g_in.per_page)
                        THEN /\ g_pc' = "returned"
                             /\ g_page' = g_page
                        ELSE /\ g_pc' = "loop"
                             /\ g_page' = g_page + 1
    /\ UNCHANGED g_in
    /\ UNCHANGED g_others

GNext == get_commits \/ fetch_page

\* A get_commits that returns the pages it has when a page request fails.
RECURSIVE fetch_pages_keeping(_, _, _)
fetch_pages_keeping(in, page, all_commits) ==
    IF in.failAt = page
    THEN [raised |-> FALSE, commits |-> all_commits, requests |-> page]
    ELSE LET commits == Respond(in, page)
         IN  IF commits = <<>>
             THEN [raised |-> FALSE, commits |-> all_commits, requests |-> page]
             ELSE IF last_page(commits, in.per_page)
             THEN [raised |-> FALSE, commits |-> all_commits \o commits,
                   requests |-> page]
             ELSE fetch_pages_keeping(in, page + 1, all_commits \o commits)

\* The whole call: the loop from `page` on, all_commits holding the pages
\* before it. An exception of a page request leaves get_commits and nothing is
\* returned; requests counts the page requests made.
RECURSIVE fetch_pages(_, _, _)
fetch_pages(in, page, all_commits) ==
    IF in.failAt = page
    THEN [raised |-> TRUE, commits |-> <<>>, requests |-> page]
    ELSE LET commits == Respond(in, page)
         IN  IF commits = <<>>
             THEN [raised |-> FALSE, commits |-> all_commits, requests |-> page]
             ELSE IF last_page(commits, in.per_page)
             THEN [raised |-> FALSE, commits |-> all_commits \o commits,
                   requests |-> page]
             ELSE fetch_pages(in, page + 1, all_commits \o commits)

get_commits_result(in) == fetch_pages(in, 1, <<>>)

(***************************************************************************)
(* Branch resolver: BranchDetector                                         *)
(***************************************************************************)
NoBranch == "<none>"      \* Python's None, and a key the cache does not hold
Branches == {"", "main", "master", "develop", "trunk", "feature"}
Repos    == {"acme/api", "acme/web"}

\* A candidate list that tries master before main.
CommonBranchesMasterFirst == <<"master", "main", "develop", "trunk">>

\* common_branches = ["main", "master", "develop", "trunk"]
CommonBranches == <<"main", "master", "develop", "trunk">>

\* "if preferred_branch:" is false for None and for the empty string.
Truthy(branch) == branch # NoBranch /\ branch # ""

\* What get_repository_info comes to: an exception, a body without the
\* default_branch field, or a body with it.
InfoFail     == "<error>"
InfoAbsent   == "<absent>"
NoInfo       == "<no request>"
InfoOutcomes == {InfoFail, InfoAbsent} \cup {"main", "master", "feature"}

\* The preferred_branch arguments tried: None, the empty string, two of the
\* common names and a name that is not a common one.
PreferredArgs == {NoBranch, "", "main", "master", "feature"}

\* What get_commits(owner, repo, branch, per_page=1) comes to: an exception,
\* an empty list, or a list with a commit.
Listings == {"error", "empty", "commits"}

\* A validate_branch that takes an empty listing for a branch that exists.
validate_branch_nonnegative(listing) ==
    IF listing = "error"
    THEN [ret |-> FALSE, raised |-> FALSE]
    ELSE [ret |-> TRUE, raised |-> FALSE]

\* A validate_branch that lets the exception of the listing escape.
validate_branch_raising(listing) ==
    IF listing = "error"
    THEN [ret |-> FALSE, raised |-> TRUE]
    ELSE [ret |-> (listing = "commits"), raised |-> FALSE]

\* validate_branch, given what the listing came to.
validate_branch(listing) ==
    IF listing = "error"
    THEN [ret |-> FALSE, raised |-> FALSE]
    ELSE [ret |-> (listing = "commits"), raised |-> FALSE]

\* A detect_default_branch that lets the exception of the request escape.
detect_default_branch_raising(cache, key, info) ==
    IF cache[key] # NoBranch
    THEN [ret |-> cache[key], cache |-> cache, requested |-> FALSE,
          raised |-> FALSE]
    ELSE IF info = InfoFail
    THEN [ret |-> NoBranch, cache |-> cache, requested |-> TRUE, raised |-> TRUE]
    ELSE LET default_branch == IF info = InfoAbsent THEN "main" ELSE info
         IN  [ret |-> default_branch,
              cache |-> [cache EXCEPT ![key] = default_branch],
              requested |-> TRUE, raised |-> FALSE]

\* A detect_default_branch that caches nothing.
detect_default_branch_forgetful(cache, key, info) ==
    IF cache[key] # NoBranch
    THEN [ret |-> cache[key], cache |-> cache, requested |-> FALSE,
          raised |-> FALSE]
    ELSE [ret |-> IF info \in {InfoFail, InfoAbsent} THEN "main" ELSE info,
          cache |-> cache, requested |-> TRUE, raised |-> FALSE]

\* A detect_default_branch that never looks into the cache.
detect_default_branch_uncached(cache, key, info) ==
    IF info = InfoFail
    THEN [ret |-> "main", cache |-> cache, requested |-> TRUE, raised |-> FALSE]
    ELSE LET default_branch == IF info = InfoAbsent THEN "main" ELSE info
         IN  [ret |-> default_branch,
              cache |-> [cache EXCEPT ![key] = default_branch],
              requested |-> TRUE, raised |-> FALSE]

\* A detect_default_branch that stores the 'main' it falls back to.
detect_default_branch_caching_fallback(cache, key, info) ==
    IF cache[key] # NoBranch
    THEN [ret |-> cache[key], cache |-> cache, requested |-> FALSE,
          raised |-> FALSE]
    ELSE LET default_branch == IF info \in {InfoFail, InfoAbsent} THEN "main"
                               ELSE info
         IN  [ret |-> default_branch,
              cache |-> [cache EXCEPT ![key] = default_branch],
              requested |-> TRUE, raised |-> FALSE]

\* detect_default_branch, given the cache and what the metadata request
\* comes to if it is made.
detect_default_branch(cache, key, info) ==
    IF cache[key] # NoBranch
    THEN [ret |-> cache[key], cache |-> cache, requested |-> FALSE,
          raised |-> FALSE]
    ELSE IF info = InfoFail
    THEN [ret |-> "main", cache |-> cache, requested |-> TRUE, raised |-> FALSE]
    ELSE LET default_branch == IF info = InfoAbsent THEN "main" ELSE info
         IN  [ret |-> default_branch,
              cache |-> [cache EXCEPT ![key] = default_branch],
              requested |-> TRUE, raised |-> FALSE]

EmptyCache == [k \in Repos |-> NoBranch]

\* A fallback search that does not cache its hit.
cache_common_branch_skipped(cache, key, branch) == cache

\* A fallback search that stores 'main' whatever candidate it found.
cache_common_branch_as_main(cache, key, branch) == [cache EXCEPT ![key] = "main"]

\* A fallback search that stores its hit for every repository.
cache_common_branch_everywhere(cache, key, branch) == [k \in Repos |-> branch]

\* "self._branch_cache[f"{owner}/{repo}"] = branch" of the fallback search.
cache_common_branch(cache, key, branch) == [cache EXCEPT ![key] = branch]

\* A clear_cache that leaves the entries in place.
branch_cache_kept(cache) == cache

\* "self._branch_cache.clear()"
branch_cache_clear(cache) == EmptyCache

NotCleared == [on |-> FALSE, held |-> {}]

IdleCall ==
    [op |-> "none", repo |-> NoBranch, arg |-> NoBranch, pc |-> "idle",
     default |-> NoBranch, idx |-> 0, ret |-> NoBranch, valid |-> FALSE,
     raised |-> FALSE, requested |-> FALSE, info |-> NoInfo,
     hadFirst |-> FALSE, step |-> 0, errors |-> FALSE, listing |-> "none",
     afterClear |-> FALSE, heldBefore |-> FALSE]

BInit ==
    /\ b_cache = EmptyCache
    /\ b_call = IdleCall
    /\ b_vlog = <<>>
    /\ b_first = [k \in Repos |-> NoBranch]
    /\ b_replaced = [k \in Repos |-> FALSE]
    /\ b_cleared = NotCleared

BIdle ==
    /\ b_cache = EmptyCache
    /\ b_call = [IdleCall EXCEPT !.pc = "off"]
    /\ b_vlog = <<>>
    /\ b_first = [k \in Repos |-> NoBranch]
    /\ b_replaced = [k \in Repos |-> FALSE]
    /\ b_cleared = NotCleared

\* No call is in progress: the caller may make the next one.
BReady == b_call.pc \in {"idle", "done"}

\* The bookkeeping of a detection: the first successful one since the last
\* clear_cache is remembered.
FirstAfter(key, d) ==
    IF d.requested /\ d.cache[key] # NoBranch /\ b_first[key] = NoBranch
    THEN [b_first EXCEPT ![key] = d.ret]
    ELSE b_first

ReplacedAfter(key, d) ==
    IF d.requested /\ d.cache[key] # NoBranch /\ b_first[key] = NoBranch
    THEN [b_replaced EXCEPT ![key] = FALSE]
    ELSE b_replaced

\* clear_cache()
clear_cache ==
    /\ BReady
    /\ b_cache' = branch_cache_clear(b_cache)
    /\ b_cleared' = [on |-> TRUE,
                     held |-> IF b_cleared.on THEN b_cleared.held
                              ELSE {k \in Repos : b_cache[k] # NoBranch}]
    /\ b_call' = [IdleCall EXCEPT !.op = "clear_cache", !.pc = "done"]
    /\ b_vlog' = <<>>
    /\ b_first' = [k \in Repos |-> NoBranch]
    /\ b_replaced' = [k \in Repos |-> FALSE]
    /\ UNCHANGED b_others

\* detect_default_branch(owner, repo), called on its own.
detect_call ==
    /\ BReady
    /\ \E key \in Repos, info \in InfoOutcomes :
          LET d == detect_default_branch(b_cache, key, info)
          IN  /\ b_cache' = d.cache
              /\ b_call' = [IdleCall EXCEPT
                              !.op = "detect_default_branch", !.repo = key,
                              !.pc = "done", !.ret = d.ret, !.default = d.ret,
                              !.raised = d.raised, !.requested = d.requested,
                              !.info = IF d.requested THEN info ELSE NoInfo,
                              !.hadFirst = (b_first[key] # NoBranch),
                              !.afterClear = b_cleared.on,
                              !.heldBefore = (key \in b_cleared.held)]
              /\ b_first' = FirstAfter(key, d)
              /\ b_replaced' = ReplacedAfter(key, d)
    /\ b_cleared' = NotCleared
    /\ b_vlog' = <<>>
    /\ UNCHANGED b_others

\* validate_branch(owner, repo, branch), called on its own.
validate_call ==
    /\ BReady
    /\ \E key \in Repos, branch \in Branches, listing \in Listings :
          LET v == validate_branch(listing)
          IN  /\ b_call' = [IdleCall EXCEPT
                              !.op = "validate_branch", !.repo = key,
                              !.arg = branch, !.pc = "done", !.valid = v.ret,
                              !.raised = v.raised,
                              !.errors = (listing = "error"),
                              !.listing = listing]
              /\ b_vlog' = <<[branch |-> branch, ret |-> v.ret]>>
    /\ UNCHANGED <<b_cache, b_first, b_replaced, b_cleared>>
    /\ UNCHANGED b_others

\* get_branch_with_fallback(owner, repo, preferred_branch) up to its first
\* request.
get_branch_with_fallback ==
    /\ BReady
    /\ \E key \in Repos, preferred_branch \in PreferredArgs :
          b_call' = [IdleCall EXCEPT
                       !.op = "get_branch_with_fallback", !.repo = key,
                       !.arg = preferred_branch,
                       !.pc = IF Truthy(preferred_branch) THEN "preferred"
                              ELSE "detect"]
    /\ b_vlog' = <<>>
    /\ UNCHANGED <<b_cache, b_first, b_replaced, b_cleared>>
    /\ UNCHANGED b_others

\* One validate_branch inside get_branch_with_fallback: what the call record
\* becomes when the branch validates (return it) and when it does not.
Validated(branch, listing, step, next) ==
    LET v    == validate_branch(listing)
        errs == b_call.errors \/ listing = "error"
    IN  /\ b_vlog' = Append(b_vlog, [branch |-> branch, ret |-> v.ret])
        /\ b_call' = IF v.raised
                      THEN [b_call EXCEPT !.pc = "done", !.raised = TRUE,
                                          !.errors = errs, !.listing = listing]
                      ELSE IF v.ret
                      THEN [b_call EXCEPT !.pc = "done", !.ret = branch,
                                          !.step = step, !.errors = errs,
                                          !.listing = listing]
                      ELSE [next EXCEPT !.errors = errs, !.listing = listing]

\* 1. Try preferred branch if provided.
try_preferred ==
    /\ b_call.pc = "preferred"
    /\ \E listing \in Listings :
          Validated(b_call.arg, listing, 1, [b_call EXCEPT !.pc = "detect"])
    /\ UNCHANGED <<b_cache, b_first, b_replaced, b_cleared>>
    /\ UNCHANGED b_others

\* 2. default_branch = self.detect_default_branch(owner, repo)
detect_in_fallback ==
    /\ b_call.pc = "detect"
    /\ \E info \in InfoOutcomes :
          LET d == detect_default_branch(b_cache, b_call.repo, info)
          IN  /\ b_cache' = d.cache
              /\ b_call' = [b_call EXCEPT
                              !.pc = IF d.raised THEN "done" ELSE "default",
                              !.default = d.ret, !.raised = d.raised,
                              !.requested = d.requested,
                              !.info = IF d.requested THEN info ELSE NoInfo,
                              !.hadFirst = (b_first[b_call.repo] # NoBranch),
                              !.afterClear = b_cleared.on,
                              !.heldBefore = (b_call.repo \in b_cleared.held)]
              /\ b_first' = FirstAfter(b_call.repo, d)
              /\ b_replaced' = ReplacedAfter(b_call.repo, d)
    /\ b_cleared' = NotCleared
    /\ UNCHANGED b_vlog
    /\ UNCHANGED b_others

\* 2. ... if self.validate_branch(owner, repo, default_branch): return it.
try_default ==
    /\ b_call.pc = "default"
    /\ \E listing \in Listings :
          Validated(b_call.default, listing, 2,
                    [b_call EXCEPT !.pc = "common", !.idx = 1])
    /\ UNCHANGED <<b_cache, b_first, b_replaced, b_cleared>>
    /\ UNCHANGED b_others

\* 3. One iteration of "for branch in common_branches".
try_common ==
    /\ b_call.pc = "common"
    /\ b_call.idx <= Len(CommonBranches)
    /\ LET branch == CommonBranches[b_call.idx]
           next   == [b_call EXCEPT !.idx = b_call.idx + 1]
       IN  IF branch = b_call.default
           THEN /\ b_call' = next
                /\ UNCHANGED <<b_vlog, b_cache, b_replaced>>
           ELSE \E listing \in Listings :
                  /\ Validated(branch, listing, 3, next)
                  /\ IF validate_branch(listing).ret
                        /\ ~validate_branch(listing).raised
                     THEN /\ b_cache' = cache_common_branch(b_cache, b_call.repo,
                                                            branch)
                          /\ b_replaced' =
                                [b_replaced EXCEPT ![b_call.repo] = TRUE]
                     ELSE UNCHANGED <<b_cache, b_replaced>>
    /\ UNCHANGED <<b_first, b_cleared>>
    /\ UNCHANGED b_others

\* 4. Fallback: return "main".
last_resort ==
    /\ b_call.pc = "common"
    /\ b_call.idx > Len(CommonBranches)
    /\ b_call' = [b_call EXCEPT !.pc = "done", !.ret = "main", !.step = 4]
    /\ UNCHANGED <<b_cache, b_vlog, b_first, b_replaced, b_cleared>>
    /\ UNCHANGED b_others

\* The listing a validate_branch gets when the branches of `valid` hold
\* commits and every other branch name is rejected by the provider.
listing_of(valid, branch) == IF branch \in valid THEN "commits" ELSE "error"

\* 3. and 4. of get_branch_with_fallback, from candidate number i on.
RECURSIVE common_search(_, _, _)
common_search(default_branch, valid, i) ==
    IF i > Len(CommonBranches)
    THEN [ret |-> "main", step |-> 4, validated |-> <<>>]
    ELSE LET branch == CommonBranches[i]
         IN  IF branch = default_branch
             THEN common_search(default_branch, valid, i + 1)
             ELSE IF validate_branch(listing_of(valid, branch)).ret
             THEN [ret |-> branch, step |-> 3, validated |-> <<branch>>]
             ELSE LET rest == common_search(default_branch, valid, i + 1)
                  IN  [rest EXCEPT !.validated = <<branch>> \o rest.validated]

\* get_branch_with_fallback as one call: its value, the step it returned at,
\* the branches it gave to validate_branch in order, the value of
\* detect_default_branch (NoBranch when it was not called) and the cache
\* afterwards.
branch_with_fallback(cache, key, preferred_branch, info, valid) ==
    IF Truthy(preferred_branch)
       /\ validate_branch(listing_of(valid, preferred_branch)).ret
    THEN [ret |-> preferred_branch, step |-> 1,
          validated |-> <<preferred_branch>>, default |-> NoBranch,
          cache |-> cache]
    ELSE LET tried == IF Truthy(preferred_branch)
                      THEN <<preferred_branch>> ELSE <<>>
             d     == detect_default_branch(cache, key, info)
         IN  IF validate_branch(listing_of(valid, d.ret)).ret
             THEN [ret |-> d.ret, step |-> 2,
                   validated |-> Append(tried, d.ret), default |-> d.ret,
                   cache |-> d.cache]
             ELSE LET found == common_search(d.ret, valid, 1)
                  IN  [ret |-> found.ret, step |-> found.step,
                       validated |-> Append(tried, d.ret) \o found.validated,
                       default |-> d.ret,
                       cache |-> IF found.step = 3
                                 THEN cache_common_branch(d.cache, key, found.ret)
                                 ELSE d.cache]

BNext ==
    \/ clear_cache
    \/ detect_call
    \/ validate_call
    \/ get_branch_with_fallback
    \/ try_preferred
    \/ detect_in_fallback
    \/ try_default
    \/ try_common
    \/ last_resort

(***************************************************************************)
(* Commit fetcher and collection orchestrator: DataCollector               *)
(***************************************************************************)
NoSha   == "<none>"                \* a listed commit without a "sha", or with ""
NullSha == "<null>"                \* a listed commit with "sha": null
Shas    == {"s1", "s2"}
\* Commits whose "commit"."author" is null, in the listing and in the detail.
NullAuthorShas == {"s3"}
\* What a listed commit carries as "sha".
ListedShas == Shas \cup NullAuthorShas \cup {NoSha, NullSha}
HasSha(sha) == sha \notin {NoSha, NullSha}     \* "if sha:"

\* The number of entries of "files" in the detail of a commit.
FilesOf(sha) == IF sha = "s1" THEN 1 ELSE 2

\* Raw commit data: an item of the listing, and the answer of the detail
\* endpoint for a sha. The listing items carry no "files".
\* commit_author is what "commit"."author" holds: a dict, or null.
commit_author(sha) == IF sha \in NullAuthorShas THEN "null" ELSE "dict"
Summary(sha) ==
    [sha |-> sha, files |-> 0, kind |-> "summary",
     commit_author |-> commit_author(sha)]
Detail(sha) ==
    [sha |-> sha, files |-> FilesOf(sha), kind |-> "detail",
     commit_author |-> commit_author(sha)]

RECURSIVE SeqsUpTo(_, _)
SeqsUpTo(S, n) ==
    IF n = 0 THEN {<<>>}
    ELSE SeqsUpTo(S, n - 1) \cup
         {Append(q, x) : q \in {y \in SeqsUpTo(S, n - 1) : Len(y) = n - 1},
                         x \in S}

Collectors == [fetch_detailed_commits : BOOLEAN, auto_detect_branch : BOOLEAN]

\* Filters: a dict over some of the keys; NoFilter is Python's None.
FilterKeys   == {"date_from", "date_to", "author"}
NoFilter     == "<none>"
EmptyFilters == <<>>
Dicts(keys, values) == UNION {[S -> values] : S \in SUBSET keys}

\* dict.get(key): the value, or None when the key is absent.
dict_get(d, key) == IF key \in DOMAIN d THEN d[key] ELSE NoFilter

\* A merge in which the global value wins.
merge_filters_global_first(global_filters, repo_filters) ==
    [k \in DOMAIN global_filters \cup DOMAIN repo_filters |->
        IF k \in DOMAIN global_filters THEN global_filters[k]
        ELSE repo_filters[k]]

\* "{**global_filters, **repo_config.get("filters", {})}"
merge_filters(global_filters, repo_filters) ==
    [k \in DOMAIN global_filters \cup DOMAIN repo_filters |->
        IF k \in DOMAIN repo_filters THEN repo_filters[k]
        ELSE global_filters[k]]

\* repo_config.get("filters", {})
repo_filters_of(config) ==
    IF "filters" \in DOMAIN config THEN config.filters ELSE EmptyFilters

\* The date_from, date_to and author given to collect_repository_commits.
repository_filters(global_filters, config) ==
    LET filters == merge_filters(global_filters, repo_filters_of(config))
    IN  [k \in FilterKeys |-> dict_get(filters, k)]

GlobalFilterChoices == Dicts(FilterKeys, {"2024-01-01"})

\* Entries with no "filters", and with filters that set some keys, to a value
\* or to None.
FilterConfigs ==
    [url : {"acme/api"}, branch : {"dev"}] \cup
    [url : {"acme/api"}, branch : {"dev"},
     filters : Dicts({"date_from", "author"}, {NoFilter, "2024-06-01"}) \cup
               Dicts({"date_to"}, {"2024-06-01"})]

\* One entry of repos_config.
RepoConfigs == [url : {"acme/api"}, branch : {NoBranch, "dev"}]

\* Entries that pin no branch, an empty one, and two branch names.
BranchConfigs == [url : {"acme/api"}, branch : {NoBranch, "", "feature", "main"}]

\* What the collaborators answer during one collect_repository_commits:
\*   parse     parse_repo_url returns (TRUE) or raises ValueError (FALSE)
\*   default   what the metadata request of detect_default_branch comes to
\*   valid     the branches whose listing holds commits for validate_branch
\*   info      get_repository_info returns (TRUE) or raises (FALSE)
\*   listing   get_commits raises, or returns the shas of the listed commits
\*   failAt    the positions of the listing whose get_commit_details raises
ListingFailed == [raised |-> TRUE, commits |-> <<>>]
Listed(shas)  == [raised |-> FALSE, commits |-> shas]

EnvsOver(listings) ==
    UNION {[parse : BOOLEAN, default : {"main"}, valid : {{"dev"}, {"main"}},
            info : BOOLEAN, listing : {l},
            failAt : SUBSET (1..Len(l.commits))] : l \in listings}

\* The "sha" of the commit at position n of the provider's history.
sha_name(n) == "c" \o ToString(n)

\* What get_commits comes to when the provider answers page by page; the
\* commits of noSha carry no "sha", those of nullSha carry "sha": null.
ListingOf(in, noSha, nullSha) ==
    LET r == get_commits_result(in)
    IN  IF r.raised THEN ListingFailed
        ELSE Listed([i \in 1..Len(r.commits) |->
                        IF r.commits[i] \in nullSha THEN NullSha
                        ELSE IF r.commits[i] \in noSha THEN NoSha
                        ELSE sha_name(r.commits[i])])

\* The listing of collect_repository_commits: get_commits with the default
\* per_page.
PagedInputs ==
    {in \in GetCommitsInputs : /\ in.per_page = DefaultPerPage
                               /\ Len(in.pages) <= MaxListedPages
                               /\ in.failAt <= MaxListedPages + 1}

PagedEnv(in, noSha, nullSha, failAt) ==
    [parse |-> TRUE, default |-> "main", valid |-> {"dev"}, info |-> TRUE,
     listing |-> ListingOf(in, noSha, nullSha), failAt |-> failAt,
     in |-> in, noSha |-> noSha, nullSha |-> nullSha]

\* The detail request fails for no commit, for the first, or for the third
\* and the first of the second page.
DetailFailures == {{}, {1}, {3, DefaultPerPage + 1}}

\* One repository listed page by page.
PagedEnvs ==
    {PagedEnv(in, noSha, nullSha, failAt) :
        in \in PagedInputs, noSha \in {{}, {2}}, nullSha \in {{}, {4}},
        failAt \in DetailFailures}

\* A listing whose first page is full and whose second page request fails.
FailsOnSecondPage ==
    [per_page |-> DefaultPerPage,
     pages |-> PagesOf(<<DefaultPerPage>>, DefaultPerPage), failAt |-> 2]

\* One repository looked at closely: any listing of up to MaxCommits commits.
RepositoryEnvs ==
    EnvsOver({ListingFailed} \cup
             {Listed(q) : q \in SeqsUpTo(ListedShas, MaxCommits)})

\* Several repositories: each with one of a few listings.
SmallEnvs ==
    {e \in EnvsOver({ListingFailed, Listed(<<>>), Listed(<<"s1">>),
                      Listed(<<"s2", "s1">>)}) :
        e.failAt \subseteq {1} /\ e.valid = {"dev"}} \cup
    {PagedEnv(FailsOnSecondPage, {}, {}, {})}

\* One repository, looked at for the branch it is listed on: any answer to the
\* metadata request of the detection and any set of branches with commits.
BranchEnvs ==
    [parse : {TRUE}, default : {InfoFail, InfoAbsent, "main", "feature"},
     valid : SUBSET {"", "feature", "main", "master"},
     info : BOOLEAN, listing : {Listed(<<"s1">>)}, failAt : {{}}]

\* Repositories looked at for their filters: the listing succeeds or fails.
FilterEnvs ==
    {e \in SmallEnvs : /\ e.parse /\ e.info /\ e.failAt = {}
                       /\ e.listing \in {ListingFailed, Listed(<<"s1">>)}}

EnvsOf(scope) ==
    IF scope = "repository" THEN RepositoryEnvs
    ELSE IF scope = "branch" THEN BranchEnvs
    ELSE IF scope = "filters" THEN FilterEnvs
    ELSE IF scope = "pages" THEN PagedEnvs
    ELSE SmallEnvs

ConfigsOf(scope) ==
    IF scope = "branch" THEN BranchConfigs
    ELSE IF scope = "filters" THEN FilterConfigs
    ELSE IF scope = "pages" THEN {[url |-> "acme/api", branch |-> "dev"]}
    ELSE RepoConfigs

Call(fn, arg) == [fn |-> fn, arg |-> arg]

\* No resolver call: the branch is taken as it is.
Unresolved(branch, cache) ==
    [branch |-> branch, calls |-> <<>>, validated |-> <<>>,
     default |-> NoBranch, cache |-> cache]

\* A resolution that lists the pinned branch as it is given.
resolve_branch_unvalidated(collector, cache, key, branch, env) ==
    IF branch = NoBranch /\ collector.auto_detect_branch
    THEN LET d == detect_default_branch(cache, key, env.default)
         IN  [branch |-> d.ret,
              calls |-> <<Call("detect_default_branch", NoBranch)>>,
              validated |-> <<>>, default |-> d.ret, cache |-> d.cache]
    ELSE IF branch = NoBranch
    THEN Unresolved("main", cache)
    ELSE Unresolved(branch, cache)

\* A resolution that sends an absent branch through the fallback chain.
resolve_branch_with_fallback(collector, cache, key, branch, env) ==
    IF collector.auto_detect_branch
    THEN LET r == branch_with_fallback(cache, key, branch, env.default,
                                       env.valid)
         IN  [branch |-> r.ret,
              calls |-> <<Call("get_branch_with_fallback", branch)>>,
              validated |-> r.validated, default |-> r.default,
              cache |-> r.cache]
    ELSE IF branch = NoBranch
    THEN Unresolved("main", cache)
    ELSE Unresolved(branch, cache)

\* The branch collect_repository_commits lists, the resolver calls made, the
\* branches given to validate_branch, and the resolver's cache afterwards.
resolve_branch(collector, cache, key, branch, env) ==
    IF branch = NoBranch /\ collector.auto_detect_branch
    THEN LET d == detect_default_branch(cache, key, env.default)
         IN  [branch |-> d.ret,
              calls |-> <<Call("detect_default_branch", NoBranch)>>,
              validated |-> <<>>, default |-> d.ret, cache |-> d.cache]
    ELSE IF branch = NoBranch
    THEN Unresolved("main", cache)
    ELSE IF collector.auto_detect_branch
    THEN LET r == branch_with_fallback(cache, key, branch, env.default,
                                       env.valid)
         IN  [branch |-> r.ret,
              calls |-> <<Call("get_branch_with_fallback", branch)>>,
              validated |-> r.validated, default |-> r.default,
              cache |-> r.cache]
    ELSE Unresolved(branch, cache)

\* A detail loop without "if sha:".
detail_calls_unfiltered(commits) ==
    [k \in 1..Len(commits) |-> Call("get_commit_details", commits[k])]

\* The calls of get_commit_details for a sequence of listed commits: one for
\* every commit with a sha ("if sha:"), in order.
detail_calls(commits) ==
    LET asked == SelectSeq(commits, HasSha)
    IN  [k \in 1..Len(asked) |-> Call("get_commit_details", asked[k])]

\* A detail loop without its try/except: one failure ends the collection.
fetch_details_unguarded(commits, failAt, i) ==
    LET bad  == {j \in 1..i : HasSha(commits[j]) /\ j \in failAt}
        stop == IF bad = {} THEN i
                ELSE CHOOSE j \in bad : \A k \in bad : j <= k
    IN  [detailed |-> {commits[j] : j \in {k \in 1..stop :
                           HasSha(commits[k]) /\ k \notin failAt}},
         calls |-> detail_calls(SubSeq(commits, 1, stop)),
         raised |-> bad # {}]

\* The loop "for i, commit in enumerate(commits, 1)" over the first i
\* commits: the shas whose detail was stored in detailed_commits.
fetch_details(commits, failAt, i) ==
    [detailed |-> {commits[j] : j \in {k \in 1..i :
                       HasSha(commits[k]) /\ k \notin failAt}},
     calls |-> detail_calls(SubSeq(commits, 1, i)),
     raised |-> FALSE]

\* What process_commit comes to: a CommitData, or an exception.
Built(commit_obj) == [raised |-> FALSE, commit_obj |-> commit_obj]
NotBuilt == [raised |-> TRUE, commit_obj |-> <<>>]

\* A process_commit that builds a record from whatever it is given.
process_commit_lenient(sha, repo, branch, detailed) ==
    LET data == IF HasSha(sha) /\ sha \in detailed THEN Detail(sha) ELSE Summary(sha)
    IN  Built([repo |-> repo, branch |-> branch,
               sha |-> IF HasSha(data.sha) THEN data.sha ELSE "",
               files |-> data.files, kind |-> data.kind])

\* process_commit: "data = detailed_data if detailed_data else commit_data";
\* author_info.get raises AttributeError for a null "commit"."author", and
\* commit_obj.commit_sha[:7] raises TypeError for a null "sha";
\* data.get("sha", "") is "" for a missing "sha".
process_commit(sha, repo, branch, detailed) ==
    LET data == IF HasSha(sha) /\ sha \in detailed THEN Detail(sha) ELSE Summary(sha)
    IN  IF data.commit_author = "null" THEN NotBuilt
        ELSE IF data.sha = NullSha THEN NotBuilt
        ELSE Built([repo |-> repo, branch |-> branch,
                    sha |-> IF data.sha = NoSha THEN "" ELSE data.sha,
                    files |-> data.files, kind |-> data.kind])

\* A batch that comes out newest last.
process_commits_batch_reversed(commits, repo, branch, detailed) ==
    LET outcomes == [i \in 1..Len(commits) |->
                        process_commit(commits[Len(commits) + 1 - i], repo,
                                       branch, detailed)]
        appended == SelectSeq(outcomes, LAMBDA o : ~o.raised)
    IN  [i \in 1..Len(appended) |-> appended[i].commit_obj]

\* process_commits_batch: "for commit_data in commits_data", in listing
\* order: the record of process_commit is appended, or its exception is
\* logged and the commit is left out ("except Exception ... continue").
process_commits_batch(commits, repo, branch, detailed) ==
    LET outcomes == [i \in 1..Len(commits) |->
                        process_commit(commits[i], repo, branch, detailed)]
        appended == SelectSeq(outcomes, LAMBDA o : ~o.raised)
    IN  [i \in 1..Len(appended) |-> appended[i].commit_obj]

\* The page requests of the get_commits call, where the listing is given page
\* by page.
page_count(env) ==
    IF "in" \in DOMAIN env THEN get_commits_result(env.in).requests ELSE 0
page_requests(env) ==
    [k \in 1..page_count(env) |-> Call("commits_page", ToString(k))]

Failure(calls, resolved) ==
    [raised |-> TRUE, commits |-> <<>>, calls |-> calls, resolved |-> resolved]

\* collect_repository_commits for entry number repo of repos_config, the
\* resolver's cache being `cache` when it is called.
collect_repository_commits(collector, cache, repo, config, env) ==
    IF ~env.parse THEN Failure(<<>>, Unresolved(NoBranch, cache))
    ELSE
    LET resolved == resolve_branch(collector, cache, config.url, config.branch,
                                   env)
        calls1   == Append(resolved.calls, Call("get_repository_info", NoBranch))
        calls2   == Append(calls1, Call("get_commits", resolved.branch))
                    \o page_requests(env)
    IN  IF ~env.info THEN Failure(calls1, resolved)
        ELSE IF env.listing.raised THEN Failure(calls2, resolved)
        ELSE IF env.listing.commits = <<>>
        THEN [raised |-> FALSE, commits |-> <<>>, calls |-> calls2,
              resolved |-> resolved]
        ELSE
        LET commits == env.listing.commits
            details == IF collector.fetch_detailed_commits
                       THEN fetch_details(commits, env.failAt, Len(commits))
                       ELSE [detailed |-> {}, calls |-> <<>>, raised |-> FALSE]
        IN  IF details.raised THEN Failure(calls2 \o details.calls, resolved)
            ELSE [raised |-> FALSE,
                  commits |-> process_commits_batch(commits, repo,
                                                    resolved.branch,
                                                    details.detailed),
                  calls |-> calls2 \o details.calls,
                  resolved |-> resolved]

\* A loop body without its try/except: the exception leaves the loop.
collect_one_unguarded(all_commits, result) ==
    IF result.raised
    THEN [all_commits |-> all_commits, escaped |-> TRUE]
    ELSE [all_commits |-> all_commits \o result.commits, escaped |-> FALSE]

\* The body of "for repo_config in repos_config": extend all_commits, or log
\* the exception and continue.
collect_one(all_commits, result) ==
    IF result.raised
    THEN [all_commits |-> all_commits, escaped |-> FALSE]
    ELSE [all_commits |-> all_commits \o result.commits, escaped |-> FALSE]

NoCollection ==
    [config |-> [url |-> "", branch |-> NoBranch],
     env |-> [parse |-> FALSE, default |-> "main", valid |-> {},
              info |-> FALSE, listing |-> ListingFailed, failAt |-> {}],
     result |-> Failure(<<>>, Unresolved(NoBranch, EmptyCache)),
     filters |-> [k \in FilterKeys |-> NoFilter], made |-> FALSE]

CStart ==
    /\ c_cfg \in Collectors
    /\ c_pc = "idle"
    /\ c_i = 0
    /\ c_all = <<>>
    /\ c_log = <<>>
    /\ c_last = NoCollection
    /\ c_cache = EmptyCache

\* A collector given one repository, any listing.
CInitRepository ==
    CStart /\ c_scope = "repository" /\ c_n = 1 /\ c_global = EmptyFilters

\* A collector given one repository, any branch situation.
CInitBranch ==
    CStart /\ c_scope = "branch" /\ c_n = 1 /\ c_global = EmptyFilters

\* A collector given up to MaxRepos repositories.
CInitAll ==
    CStart /\ c_scope = "all" /\ c_n \in 0..MaxRepos /\ c_global = EmptyFilters

\* A collector given one repository that is listed page by page.
CInitPages ==
    CStart /\ c_scope = "pages" /\ c_n = 1 /\ c_global = EmptyFilters

\* A collector given global filters and repositories with filters of their own.
CInitFilters ==
    /\ CStart
    /\ c_scope = "filters"
    /\ c_n \in 1..MaxFiltered
    /\ c_global \in GlobalFilterChoices

CIdle ==
    /\ c_cfg = [fetch_detailed_commits |-> TRUE, auto_detect_branch |-> TRUE]
    /\ c_scope = "none"
    /\ c_n = 0
    /\ c_pc = "off"
    /\ c_i = 0
    /\ c_all = <<>>
    /\ c_log = <<>>
    /\ c_last = NoCollection
    /\ c_cache = EmptyCache
    /\ c_global = EmptyFilters

\* collect_multiple_repositories up to its loop.
collect_multiple_repositories ==
    /\ c_pc = "idle"
    /\ c_pc' = "loop"
    /\ c_all' = <<>>
    /\ UNCHANGED <<c_cfg, c_scope, c_n, c_i, c_log, c_last, c_cache, c_global>>
    /\ UNCHANGED c_others

\* One iteration of the loop over repos_config.
collect_next ==
    /\ c_pc = "loop"
    /\ c_i < c_n
    /\ \E config \in ConfigsOf(c_scope), env \in EnvsOf(c_scope) :
          LET filters == repository_filters(c_global, config)
              result == collect_repository_commits(c_cfg, c_cache, c_i + 1,
                                                   config, env)
              after  == collect_one(c_all, result)
          IN  /\ c_all' = after.all_commits
              /\ c_cache' = result.resolved.cache
              /\ c_pc' = IF after.escaped THEN "raised" ELSE "loop"
              /\ c_log' = Append(c_log, [raised |-> result.raised,
                                         commits |-> result.commits,
                                         requests |-> page_count(env),
                                         given |-> repo_filters_of(config),
                                         filters |-> filters])
              /\ c_last' = [config |-> config, env |-> env, result |-> result,
                            filters |-> filters, made |-> TRUE]
    /\ c_i' = c_i + 1
    /\ UNCHANGED <<c_cfg, c_scope, c_n, c_global>>
    /\ UNCHANGED c_others

\* "return all_commits"
collect_return ==
    /\ c_pc = "loop"
    /\ c_i = c_n
    /\ c_pc' = "returned"
    /\ UNCHANGED <<c_cfg, c_scope, c_n, c_i, c_all, c_log, c_last, c_cache,
                   c_global>>
    /\ UNCHANGED c_others

CNext == collect_multiple_repositories \/ collect_next \/ collect_return

(***************************************************************************)
(* Team mapping and commit filtering: TeamMapper, CommitProcessor          *)
(***************************************************************************)
\* Usernames are sequences of characters; NoUsername is Python's None.
NoUsername == <<"<none>">>
UserAl     == <<"a", "l">>
UserAlCaps == <<"A", "L">>
UserAlInit == <<"A", "l">>
UserBo     == <<"b", "o">>
UserBoInit == <<"B", "o">>
UserZed    == <<"z", "e", "d">>
Usernames  == {UserAl, UserAlCaps, UserAlInit, UserBo, UserBoInit, UserZed,
               <<>>, NoUsername}

\* "if not username" and "if c.author_username": None and "" are falsy.
HasUsername(username) == username # NoUsername /\ username # <<>>

Team(name, members) == [name |-> name, members |-> members]

\* The team mapping file: "teams", in file order, each with its list of
\* members as written, and "default_team", which may be missing.
TeamConfigs ==
    {[teams |-> <<Team("backend", <<UserAl>>), Team("frontend", <<UserBoInit>>)>>,
      default_team |-> "unassigned"],
     [teams |-> <<Team("backend", <<UserAl, UserBo>>),
                  Team("frontend", <<UserAlCaps>>)>>,
      default_team |-> "misc"],
     [teams |-> <<Team("backend", <<UserAlInit>>)>>],
     [teams |-> <<>>, default_team |-> "misc"]}

\* team_config.get("default_team", "unassigned")
default_team(team_config) ==
    IF "default_team" \in DOMAIN team_config THEN team_config.default_team
    ELSE "unassigned"

\* The dict username_to_team built by __init__: every member, lower-cased,
\* mapped to the last team that lists it.
username_to_team(team_config) ==
    LET teams == team_config.teams
        Lists(i, u) == \E j \in 1..Len(teams[i].members) :
                          lower(teams[i].members[j]) = u
        last(u) == CHOOSE i \in 1..Len(teams) :
                      Lists(i, u) /\ \A k \in 1..Len(teams) : Lists(k, u) => k <= i
        keys == UNION {{lower(teams[i].members[j]) :
                           j \in 1..Len(teams[i].members)} : i \in 1..Len(teams)}
    IN  [u \in keys |-> teams[last(u)].name]

TeamMapper(team_config) ==
    [default_team |-> default_team(team_config),
     username_to_team |-> username_to_team(team_config)]

\* TeamMapper.add_mapping: "self.username_to_team[username.lower()] = team_name"
add_mapping(mapper, username, team_name) ==
    LET key == lower(username)
        old == mapper.username_to_team
    IN  [mapper EXCEPT !.username_to_team =
            [u \in DOMAIN old \cup {key} |->
                IF u = key THEN team_name ELSE old[u]]]

\* The arguments add_mapping is called with.
AddedUsernames == {UserAlCaps, UserBo, UserZed}
AddedTeams     == {"frontend", "ops"}

\* A mapper nothing is listed in.
NoMapper == [default_team |-> "unassigned", username_to_team |-> <<>>]

\* A lookup of the username as it is given.
get_team_case_sensitive(mapper, username) ==
    IF ~HasUsername(username) THEN mapper.default_team
    ELSE IF username \in DOMAIN mapper.username_to_team
    THEN mapper.username_to_team[username]
    ELSE mapper.default_team

\* TeamMapper.get_team
get_team(mapper, username) ==
    IF ~HasUsername(username) THEN mapper.default_team
    ELSE LET username_lower == lower(username)
         IN  IF username_lower \in DOMAIN mapper.username_to_team
             THEN mapper.username_to_team[username_lower]
             ELSE mapper.default_team

\* Raw commit data as far as the author goes: "author" is missing, or None
\* or an empty dict (<<>>), or a dict with a "login" or without one.
AuthorDicts == {<<>>, [type |-> "User"]} \cup [{"login"} -> Usernames]
RawCommits ==
    {[sha |-> "s1"]} \cup {[sha |-> "s1", author |-> a] : a \in AuthorDicts}

\* detailed_data: None, or the answer of the detail endpoint.
NoDetail     == <<>>
DetailedData == {NoDetail} \cup RawCommits

\* process_commit as far as the author goes: the author_username and the
\* team_name of the CommitData it returns.
process_commit_author(mapper, commit_data, detailed_data) ==
    LET data == IF DOMAIN detailed_data # {} THEN detailed_data ELSE commit_data
        author_username ==
            IF "author" \in DOMAIN data /\ DOMAIN data.author # {}
            THEN IF "login" \in DOMAIN data.author THEN data.author["login"]
                 ELSE NoUsername
            ELSE NoUsername
    IN  [author_username |-> author_username,
         team_name |-> get_team(mapper, author_username)]

TeamInputs ==
    [fn : {"get_team"}, team_config : TeamConfigs, username : Usernames] \cup
    [fn : {"process_commit"}, team_config : TeamConfigs,
     commit_data : RawCommits, detailed_data : DetailedData]

\* CommitData as far as filter_commits reads it.
Commit(sha, date, username, team) ==
    [commit_sha |-> sha, commit_date |-> date, author_username |-> username,
     team_name |-> team]
CommitPool ==
    {Commit("s1", 1, UserAl, "backend"), Commit("s2", 2, UserAlCaps, "frontend"),
     Commit("s3", 2, NoUsername, "backend"), Commit("s4", MaxDate, UserBo, "frontend")}

\* Optional arguments: NoDate and NoList are Python's None.
NoDate == 0
NoList == [given |-> FALSE, items |-> <<>>]
Given(items) == [given |-> TRUE, items |-> items]
\* "if authors:", "if teams:": None and the empty list are falsy.
TruthyList(list) == list.given /\ list.items # <<>>

FilterInputs ==
    [fn : {"filter_commits"},
     commits : SeqsUpTo(CommitPool, MaxFilterLen),
     date_from : 0..MaxDate, date_to : 0..MaxDate,
     authors : {NoList, Given(<<>>), Given(<<UserAlCaps>>)},
     teams : {NoList, Given(<<>>), Given(<<"backend">>),
              Given(<<"backend", "frontend">>)}]

\* The filtering of filter_commits after the date bounds.
filter_by_people(commits, authors, teams) ==
    LET authors_lower == [i \in 1..Len(authors.items) |-> lower(authors.items[i])]
        by_author ==
            IF TruthyList(authors)
            THEN SelectSeq(commits, LAMBDA c :
                    /\ HasUsername(c.author_username)
                    /\ \E i \in 1..Len(authors_lower) :
                          authors_lower[i] = lower(c.author_username))
            ELSE commits
    IN  IF TruthyList(teams)
        THEN SelectSeq(by_author, LAMBDA c :
                \E i \in 1..Len(teams.items) : teams.items[i] = c.team_name)
        ELSE by_author

\* A filter whose lower date bound is exclusive.
filter_commits_exclusive(commits, date_from, date_to, authors, teams) ==
    LET after  == IF date_from # NoDate
                  THEN SelectSeq(commits, LAMBDA c : c.commit_date > date_from)
                  ELSE commits
        before == IF date_to # NoDate
                  THEN SelectSeq(after, LAMBDA c : c.commit_date <= date_to)
                  ELSE after
    IN  filter_by_people(before, authors, teams)

\* CommitProcessor.filter_commits
filter_commits(commits, date_from, date_to, authors, teams) ==
    LET after  == IF date_from # NoDate
                  THEN SelectSeq(commits, LAMBDA c : c.commit_date >= date_from)
                  ELSE commits
        before == IF date_to # NoDate
                  THEN SelectSeq(after, LAMBDA c : c.commit_date <= date_to)
                  ELSE after
    IN  filter_by_people(before, authors, teams)

\* "TeamMapper(team_config)": the mapper is built, then called.
PInitTeams ==
    /\ p_in \in TeamInputs
    /\ p_pc = "idle"
    /\ p_out = <<>>
    /\ p_mapper = TeamMapper(p_in.team_config)
    /\ p_added = <<>>

PInitFilter ==
    /\ p_in \in FilterInputs
    /\ p_pc = "idle"
    /\ p_out = <<>>
    /\ p_mapper = NoMapper
    /\ p_added = <<>>

PIdle ==
    /\ p_in = [fn |-> "none"]
    /\ p_pc = "off"
    /\ p_out = <<>>
    /\ p_mapper = NoMapper
    /\ p_added = <<>>

\* mapper.add_mapping(username, team_name)
add_mapping_call ==
    /\ p_pc = "idle"
    /\ p_in.fn \in {"get_team", "process_commit"}
    /\ Len(p_added) < MaxAdded
    /\ \E username \in AddedUsernames, team_name \in AddedTeams :
          /\ p_mapper' = add_mapping(p_mapper, username, team_name)
          /\ p_added' = Append(p_added, [username |-> username,
                                         team_name |-> team_name])
    /\ UNCHANGED <<p_in, p_pc, p_out>>
    /\ UNCHANGED p_others

\* mapper.get_team(username)
get_team_call ==
    /\ p_pc = "idle"
    /\ p_in.fn = "get_team"
    /\ p_out' = <<get_team(p_mapper, p_in.username)>>
    /\ p_pc' = "returned"
    /\ UNCHANGED <<p_in, p_mapper, p_added>>
    /\ UNCHANGED p_others

\* processor.process_commit(commit_data, ..., detailed_data)
process_commit_call ==
    /\ p_pc = "idle"
    /\ p_in.fn = "process_commit"
    /\ p_out' = <<process_commit_author(p_mapper, p_in.commit_data,
                                        p_in.detailed_data)>>
    /\ p_pc' = "returned"
    /\ UNCHANGED <<p_in, p_mapper, p_added>>
    /\ UNCHANGED p_others

\* processor.filter_commits(commits, date_from, date_to, authors, teams)
filter_commits_call ==
    /\ p_pc = "idle"
    /\ p_in.fn = "filter_commits"
    /\ p_out' = <<filter_commits(p_in.commits, p_in.date_from, p_in.date_to,
                                 p_in.authors, p_in.teams)>>
    /\ p_pc' = "returned"
    /\ UNCHANGED <<p_in, p_mapper, p_added>>
    /\ UNCHANGED p_others

\* The same filter applied to what the first call returned.
filter_commits_again ==
    /\ p_pc = "returned"
    /\ p_in.fn = "filter_commits"
    /\ p_out' = Append(p_out, filter_commits(p_out[1], p_in.date_from,
                                             p_in.date_to, p_in.authors,
                                             p_in.teams))
    /\ p_pc' = "returned twice"
    /\ UNCHANGED <<p_in, p_mapper, p_added>>
    /\ UNCHANGED p_others

PNextTeams == add_mapping_call \/ get_team_call \/ process_commit_call
PNextFilter == filter_commits_call \/ filter_commits_again

(***************************************************************************)
(* Repository identifiers: DataCollector.parse_repo_url                    *)
(* A string is the sequence of its characters.                             *)
(***************************************************************************)
MaxUrl == 6           \* the part of an identifier after its prefix: 0..MaxUrl characters

Whitespace  == {" "}
Slash       == "/"
GitSuffix   == <<".", "g", "i", "t">>
HttpText    == <<"h", "t", "t", "p">>
Host        == <<"g", "i", "t", "h", "u", "b", ".", "c", "o", "m">>
SchemeChars == {"a", "b", "c", "d", "e", "f", "g", "h", "i", "j", "k", "l", "m",
                "n", "o", "p", "q", "r", "s", "t", "u", "v", "w", "x", "y", "z",
                "+", "-", "."}

\* The characters the identifiers are written with after their prefix.
UrlChars == {"/", ".", "g", "i", "t"}

\* The identifiers drawn: nothing, a host, or a scheme and a host in front,
\* any text after it, bare or between two blanks.
UrlPrefixes == {<<>>, Host \o <<"/">>,
                HttpText \o <<"s", ":", "/", "/">> \o Host \o <<"/">>}
UrlPads == {<<>>, <<" ">>}
UrlBodies(longest) == UNION {[1..n -> UrlChars] : n \in 0..longest}
ParseInputs(longest) ==
    {[fn |-> "parse_repo_url", url |-> pad \o prefix \o body \o pad] :
        pad \in UrlPads, prefix \in UrlPrefixes, body \in UrlBodies(longest)}

\* str.strip(chars), str.rstrip(chars)
strip(text, chars) ==
    LET keep == {i \in 1..Len(text) : text[i] \notin chars}
    IN  IF keep = {} THEN <<>>
        ELSE SubSeq(text, CHOOSE i \in keep : \A j \in keep : i <= j,
                          CHOOSE i \in keep : \A j \in keep : j <= i)
rstrip(text, chars) ==
    LET keep == {i \in 1..Len(text) : text[i] \notin chars}
    IN  IF keep = {} THEN <<>>
        ELSE SubSeq(text, 1, CHOOSE i \in keep : \A j \in keep : j <= i)

\* str.startswith(prefix)
startswith(text, prefix) ==
    /\ Len(prefix) <= Len(text)
    /\ SubSeq(text, 1, Len(prefix)) = prefix

\* str.find(c): the first position of a character of chars, 0 when there is none
find(text, chars) ==
    LET at == {i \in 1..Len(text) : text[i] \in chars}
    IN  IF at = {} THEN 0 ELSE CHOOSE i \in at : \A j \in at : i <= j

\* str.split(sep): the pieces between the separators, empty pieces kept
split(text, sep) ==
    LET at     == {i \in 1..Len(text) : text[i] = sep}
        cut(k) == IF k = 0 THEN 0
                  ELSE IF k > Cardinality(at) THEN Len(text) + 1
                  ELSE CHOOSE i \in at : Cardinality({j \in at : j < i}) = k - 1
    IN  [k \in 1..(Cardinality(at) + 1) |->
            SubSeq(text, cut(k - 1) + 1, cut(k) - 1)]

\* str.replace(old, ''): every occurrence met from the left is taken out
RECURSIVE replace_with_nothing(_, _)
replace_with_nothing(text, old) ==
    IF Len(text) < Len(old) THEN text
    ELSE IF SubSeq(text, 1, Len(old)) = old
         THEN replace_with_nothing(SubSeq(text, Len(old) + 1, Len(text)), old)
         ELSE <<text[1]>> \o replace_with_nothing(Tail(text), old)

\* urlparse(url).path: the scheme goes up to the first ':' when only scheme
\* characters precede it, the network location follows '//' up to the next
\* '/', '?' or '#', and the path ends before the first '?' or '#'.
urlparse_path(url) ==
    LET colon    == find(url, {":"})
        noScheme == IF /\ colon > 1
                       /\ \A i \in 1..(colon - 1) : lower_char(url[i]) \in SchemeChars
                    THEN SubSeq(url, colon + 1, Len(url))
                    ELSE url
        afterLoc == IF startswith(noScheme, <<"/", "/">>)
                    THEN LET rest == SubSeq(noScheme, 3, Len(noScheme))
                             stop == find(rest, {"/", "?", "#"})
                         IN  IF stop = 0 THEN <<>>
                             ELSE SubSeq(rest, stop, Len(rest))
                    ELSE noScheme
        stop     == find(afterLoc, {"?", "#"})
    IN  IF stop = 0 THEN afterLoc ELSE SubSeq(afterLoc, 1, stop - 1)

NoName == <<>>
ValueError == [raised |-> TRUE, owner |-> NoName, repo |-> NoName]

\* DataCollector.parse_repo_url
parse_repo_url(given) ==
    LET url   == rstrip(strip(given, Whitespace), {Slash})
        path  == IF startswith(url, HttpText)
                 THEN strip(urlparse_path(url), {Slash})
                 ELSE url
        parts == split(path, Slash)
    IN  IF ~startswith(url, HttpText) /\ ~contains(<<Slash>>, url)
        THEN ValueError
        ELSE IF Len(parts) >= 2
        THEN [raised |-> FALSE,
              owner  |-> parts[Len(parts) - 1],
              repo   |-> replace_with_nothing(parts[Len(parts)], GitSuffix)]
        ELSE ValueError

PInitParse ==
    /\ p_in \in ParseInputs(MaxUrl)
    /\ p_pc = "idle"
    /\ p_out = <<>>
    /\ p_mapper = NoMapper
    /\ p_added = <<>>

\* collector.parse_repo_url(url)
parse_repo_url_call ==
    /\ p_pc = "idle"
    /\ p_in.fn = "parse_repo_url"
    /\ p_out' = <<parse_repo_url(p_in.url)>>
    /\ p_pc' = "returned"
    /\ UNCHANGED <<p_in, p_mapper, p_added>>
    /\ UNCHANGED p_others

PNextParse == parse_repo_url_call

(***************************************************************************)
(* The command line entry point: main                                      *)
(***************************************************************************)
ExitOk          == 0     \* "return 0"
ExitFailure     == 1     \* "return 1"
ExitInterrupted == 130   \* "return 130"
NoStatus    == -1
NotExported == -1
NoTeam      == "<none>"  \* --team is not given

\* A run: GITHUB_TOKEN is set or not, repositories.yaml holds `configured`
\* enabled repositories, --repo (with the default --branch, 'main'),
\* --test-connection, --team and --no-detailed-commits are given or not.
Runs == [token : BOOLEAN, configured : 0..MaxConfigured, repo_arg : BOOLEAN,
         test_connection : BOOLEAN, team : {NoTeam, "backend"},
         no_detailed_commits : BOOLEAN]

\* validate_config: get_github_token raises ValueError without a token; no
\* repository configured is a logged warning.
validate_config_raises(in) == ~in.token

\* A run that goes on without repositories.
no_repositories_ignored(repos_config) == FALSE

\* "if not repos_config"
no_repositories(repos_config) == repos_config = 0

\* The DataCollector main builds: auto_detect_branch keeps its default.
collector_of(in) ==
    [fetch_detailed_commits |-> ~in.no_detailed_commits,
     auto_detect_branch |-> TRUE]

\* One entry of repos_config: of repositories.yaml, with or without a
\* branch, or the one built from --repo, whose branch is args.branch.
ConfiguredRepos == [url : Repos, branch : {NoBranch, "main"}]
RepoArgument    == [url |-> "acme/api", branch |-> "main"]
repos_config_entries(in) ==
    IF in.repo_arg THEN {RepoArgument} ELSE ConfiguredRepos

\* The commits a repository holds, as main reads them once processed.
BackendCommit  == Commit("s1", 1, UserAl, "backend")
FrontendCommit == Commit("s2", 2, UserBo, "frontend")
Histories      == {<<FrontendCommit>>, <<BackendCommit, FrontendCommit>>}

\* What the provider holds for one repository:
\*   parse    the url of the entry parses (TRUE) or raises ValueError (FALSE)
\*   default  the default_branch of the repository metadata
\*   exists   the branches whose listing is answered; the listing of any
\*            other branch fails (404) at every attempt
\*   has      the branches that hold the history; the others are empty
\*   history  the commits of those branches, newest first
\*   info     GET /repos/o/r is answered (TRUE) or fails at every attempt
\*   details  GET /repos/o/r/commits/sha is answered or fails at every attempt
\*   flaky    the first attempt of every _make_request call fails
Healthy(history) ==
    [parse |-> TRUE, default |-> "main", exists |-> {"main"}, has |-> {"main"},
     history |-> history, info |-> TRUE, details |-> TRUE, flaky |-> FALSE]
AllCommon == {CommonBranches[i] : i \in 1..Len(CommonBranches)}
Providers ==
    {Healthy(h) : h \in Histories} \cup
    {[Healthy(<<FrontendCommit>>) EXCEPT !.parse = FALSE],
     [Healthy(<<FrontendCommit>>) EXCEPT !.info = FALSE],
     [Healthy(<<BackendCommit, FrontendCommit>>) EXCEPT !.details = FALSE],
     [Healthy(<<BackendCommit, FrontendCommit>>) EXCEPT !.flaky = TRUE],
     [Healthy(<<FrontendCommit>>) EXCEPT !.has = {}],
     [Healthy(<<FrontendCommit>>) EXCEPT !.has = {}, !.exists = AllCommon],
     [Healthy(<<FrontendCommit>>) EXCEPT !.default = "develop",
          !.exists = {"develop", "trunk"}, !.has = {"trunk"}]}

\* Where collect_repository_commits stands: the request it is to send next.
\*   op       "detect"   GET /repos/o/r of detect_default_branch
\*            "validate" GET /repos/o/r/commits of validate_branch (per_page=1)
\*            "info"     GET /repos/o/r of get_repository_info
\*            "commits"  GET /repos/o/r/commits of the listing
\*            "details"  GET /repos/o/r/commits/sha
\*   stage    the caller: collect_repository_commits ("collect") or
\*            get_branch_with_fallback ("fallback") for a detection, the
\*            step of get_branch_with_fallback for a validation
\*   branch   the branch validated, then the branch resolved
\*   default  default_branch of get_branch_with_fallback
\*   idx      position in common_branches
\*   page     the local variable page of get_commits
\*   got      all_commits of get_commits; then commits of the collector
\*   k        position of the detail loop
\*   attempt  attempts of the current _make_request call that have failed
NoRun ==
    [config |-> [url |-> "acme/api", branch |-> NoBranch],
     env |-> [Healthy(<<FrontendCommit>>) EXCEPT !.parse = FALSE],
     op |-> "none", stage |-> "none", branch |-> NoBranch,
     default |-> NoBranch, idx |-> 0, page |-> 0, got |-> <<>>, k |-> 0,
     attempt |-> 0]

\* The call of a request: the first page, the first commit, no failed attempt.
Goto(run, op, stage, branch) ==
    [run EXCEPT !.op = op, !.stage = stage, !.branch = branch, !.page = 1,
                !.got = <<>>, !.k = 1, !.attempt = 0]

\* The repository goes on with the request of `run`, or it is done:
\* collect_repository_commits has returned `commits` or raised.
Pending(run, cache) ==
    [run |-> run, cache |-> cache, done |-> FALSE, commits |-> <<>>]
Done(cache, commits) ==
    [run |-> NoRun, cache |-> cache, done |-> TRUE, commits |-> commits]

\* "Get repository info": the branch is resolved.
to_repository_info(run, cache, branch) ==
    Pending(Goto(run, "info", "none", branch), cache)

\* "for branch in common_branches", from candidate i on.
RECURSIVE next_common_branch(_, _, _)
next_common_branch(run, cache, i) ==
    IF i > Len(CommonBranches)
    THEN to_repository_info(run, cache, "main")
    ELSE IF CommonBranches[i] = run.default
    THEN next_common_branch(run, cache, i + 1)
    ELSE Pending([Goto(run, "validate", "common", CommonBranches[i])
                     EXCEPT !.idx = i], cache)

\* What follows detect_default_branch: the listing when
\* collect_repository_commits called it, the validation of the default
\* branch when get_branch_with_fallback did.
after_detect(run, cache, stage, default_branch) ==
    IF stage = "collect"
    THEN to_repository_info(run, cache, default_branch)
    ELSE Pending([Goto(run, "validate", "default", default_branch)
                     EXCEPT !.default = default_branch], cache)

\* detect_default_branch up to its request: a cached branch is returned
\* without one.
call_detect(run, cache, stage) ==
    LET d == detect_default_branch(cache, run.config.url, InfoFail)
    IN  IF d.requested
        THEN Pending(Goto(run, "detect", stage, NoBranch), cache)
        ELSE after_detect(run, d.cache, stage, d.ret)

\* get_branch_with_fallback after validate_branch has returned `valid`.
after_validate(run, cache, valid) ==
    IF valid
    THEN IF run.stage = "common"
         THEN to_repository_info(run,
                  cache_common_branch(cache, run.config.url, run.branch),
                  run.branch)
         ELSE to_repository_info(run, cache, run.branch)
    ELSE IF run.stage = "preferred" THEN call_detect(run, cache, "fallback")
    ELSE IF run.stage = "default" THEN next_common_branch(run, cache, 1)
    ELSE next_common_branch(run, cache, run.idx + 1)

\* "for i, commit in enumerate(commits, 1)": the next commit, or the batch
\* is processed and returned.
next_detail(run, cache) ==
    IF run.k < Len(run.got)
    THEN Pending([run EXCEPT !.k = @ + 1, !.attempt = 0], cache)
    ELSE Done(cache, run.got)

\* What follows get_commits, which returned all_commits or raised: the
\* answer of validate_branch, or the rest of collect_repository_commits.
after_get_commits(collector, run, cache, raised, all_commits) ==
    IF run.op = "validate"
    THEN after_validate(run, cache,
            validate_branch(IF raised THEN "error"
                            ELSE IF all_commits = <<>> THEN "empty"
                            ELSE "commits").ret)
    ELSE IF raised \/ all_commits = <<>> THEN Done(cache, <<>>)
    ELSE IF collector.fetch_detailed_commits
    THEN Pending([run EXCEPT !.op = "details", !.got = all_commits, !.k = 1,
                             !.attempt = 0], cache)
    ELSE Done(cache, all_commits)

\* per_page of the get_commits call in progress, and the page the provider
\* answers with.
per_page_of(run) ==
    IF run.op = "validate" THEN ValidatePerPage ELSE DefaultPerPage
page_of(run) ==
    LET held  == IF run.branch \in run.env.has THEN run.env.history ELSE <<>>
        first == (run.page - 1) * per_page_of(run) + 1
        last  == Min(run.page * per_page_of(run), Len(held))
    IN  IF first > last THEN <<>> ELSE SubSeq(held, first, last)

\* The request of `run` is answered.
request_answered(collector, run, cache) ==
    IF run.op = "detect"
    THEN LET d == detect_default_branch(cache, run.config.url, run.env.default)
         IN  after_detect(run, d.cache, run.stage, d.ret)
    ELSE IF run.op = "info"
    THEN Pending(Goto(run, "commits", "none", run.branch), cache)
    ELSE IF run.op = "details" THEN next_detail(run, cache)
    ELSE LET commits == page_of(run)
             all_commits == run.got \o commits
         IN  IF commits = <<>> \/ Len(commits) < per_page_of(run)
             THEN after_get_commits(collector, run, cache, FALSE, all_commits)
             ELSE Pending([run EXCEPT !.got = all_commits, !.page = @ + 1,
                                      !.attempt = 0], cache)

\* The last attempt of the request of `run` has failed: _make_request
\* raises RetryError.
request_raised(collector, run, cache) ==
    IF run.op = "detect"
    THEN LET d == detect_default_branch(cache, run.config.url, InfoFail)
         IN  after_detect(run, d.cache, run.stage, d.ret)
    ELSE IF run.op = "info" THEN Done(cache, <<>>)
    ELSE IF run.op = "details" THEN next_detail(run, cache)
    ELSE after_get_commits(collector, run, cache, TRUE, <<>>)

\* What the provider does with the request of `run`.
request_ok(run) ==
    IF run.env.flaky /\ run.attempt = 0 THEN FALSE
    ELSE IF run.op \in {"detect", "info"} THEN run.env.info
    ELSE IF run.op = "details" THEN run.env.details
    ELSE run.branch \in run.env.exists

\* One attempt of the request of `run`: answered, failed and retried, or
\* failed for the last time.
attempt_request(collector, run, cache, ok) ==
    IF ok THEN request_answered(collector, run, cache)
    ELSE IF run.attempt + 1 < StopAfterAttempt
    THEN Pending([run EXCEPT !.attempt = @ + 1], cache)
    ELSE request_raised(collector, run, cache)

\* collect_repository_commits up to its first request.
begin_repository(config, env, cache) ==
    LET run == [NoRun EXCEPT !.config = config, !.env = env]
    IN  IF ~env.parse THEN Done(cache, <<>>)
        ELSE IF config.branch = NoBranch THEN call_detect(run, cache, "collect")
        ELSE IF Truthy(config.branch)
        THEN Pending(Goto(run, "validate", "preferred", config.branch), cache)
        ELSE call_detect(run, cache, "fallback")

\* "if args.team: all_commits = processor.filter_commits(all_commits,
\* teams=[args.team])"
filter_by_team(in, all_commits) ==
    IF in.team # NoTeam
    THEN filter_commits(all_commits, NoDate, NoDate, NoList, Given(<<in.team>>))
    ELSE all_commits

MInit ==
    /\ m_in \in Runs
    /\ m_pc = "start"
    /\ m_n = 0
    /\ m_i = 0
    /\ m_all = <<>>
    /\ m_http = 0
    /\ m_exported = NotExported
    /\ m_status = NoStatus
    /\ m_run = NoRun
    /\ m_cache = EmptyCache

MIdle ==
    /\ m_in = [token |-> FALSE, configured |-> 0, repo_arg |-> FALSE,
               test_connection |-> FALSE, team |-> NoTeam,
               no_detailed_commits |-> FALSE]
    /\ m_pc = "off"
    /\ m_n = 0
    /\ m_i = 0
    /\ m_all = <<>>
    /\ m_http = 0
    /\ m_exported = NotExported
    /\ m_status = NoStatus
    /\ m_run = NoRun
    /\ m_cache = EmptyCache

\* main up to the client: the configuration is loaded and validated, the
\* client is built; an exception ends the run with status 1.
main_configure ==
    /\ m_pc = "start"
    /\ IF validate_config_raises(m_in)
       THEN /\ m_pc' = "exited"
            /\ m_status' = ExitFailure
       ELSE /\ m_pc' = IF m_in.test_connection THEN "test" ELSE "repositories"
            /\ m_status' = m_status
    /\ UNCHANGED <<m_in, m_n, m_i, m_all, m_http, m_exported, m_run, m_cache>>
    /\ UNCHANGED m_others

\* "if args.test_connection": one request, and the run ends.
main_test_connection ==
    /\ m_pc = "test"
    /\ \E ok \in BOOLEAN :
          m_status' = IF ok THEN ExitOk ELSE ExitFailure
    /\ m_http' = m_http + 1
    /\ m_pc' = "exited"
    /\ UNCHANGED <<m_in, m_n, m_i, m_all, m_exported, m_run, m_cache>>
    /\ UNCHANGED m_others

\* "Determine repositories to collect from".
main_repositories ==
    /\ m_pc = "repositories"
    /\ IF m_in.repo_arg
       THEN /\ m_n' = 1
            /\ m_pc' = "collect"
            /\ m_status' = m_status
       ELSE IF no_repositories(m_in.configured)
       THEN /\ m_n' = m_n
            /\ m_pc' = "exited"
            /\ m_status' = ExitFailure
       ELSE /\ m_n' = m_in.configured
            /\ m_pc' = "collect"
            /\ m_status' = m_status
    /\ UNCHANGED <<m_in, m_i, m_all, m_http, m_exported, m_run, m_cache>>
    /\ UNCHANGED m_others

\* What the loop of collect_multiple_repositories does with a repository
\* that goes on or is done: "all_commits.extend(commits)", or the exception
\* is logged, and the next entry is taken.
Collected(after) ==
    /\ m_run' = after.run
    /\ m_cache' = after.cache
    /\ m_all' = m_all \o after.commits
    /\ m_i' = IF after.done THEN m_i + 1 ELSE m_i

\* The next entry of repos_config: collect_repository_commits up to its
\* first request.
main_collect_repository ==
    /\ m_pc = "collect"
    /\ m_i < m_n
    /\ m_run.op = "none"
    /\ \E config \in repos_config_entries(m_in), env \in Providers :
          Collected(begin_repository(config, env, m_cache))
    /\ UNCHANGED <<m_in, m_pc, m_n, m_http, m_exported, m_status>>
    /\ UNCHANGED m_others

\* One request of the repository being collected, and what the collector
\* does up to the next one.
main_request ==
    /\ m_pc = "collect"
    /\ m_run.op # "none"
    /\ Collected(attempt_request(collector_of(m_in), m_run, m_cache,
                                 request_ok(m_run)))
    /\ m_http' = m_http + 1
    /\ UNCHANGED <<m_in, m_pc, m_n, m_exported, m_status>>
    /\ UNCHANGED m_others

\* A request is being waited for.
RequestPending == m_pc = "test" \/ (m_pc = "collect" /\ m_run.op # "none")

\* The collection is over and the export is under way.
Exporting == m_pc = "collect" /\ m_i = m_n /\ m_run.op = "none"

\* KeyboardInterrupt anywhere in the try block of main: it is no Exception,
\* so nothing below main catches it, and main returns 130. The request that
\* is waited for has been sent or not; the commits file of an export under
\* way has been written or not.
main_interrupt ==
    /\ m_pc \in {"start", "test", "repositories", "collect"}
    /\ \E sent \in 0..1 :
          /\ sent = 1 => RequestPending
          /\ m_http' = m_http + sent
    /\ \E written \in BOOLEAN :
          /\ written => Exporting /\ m_all # <<>>
          /\ m_exported' = IF written THEN Len(filter_by_team(m_in, m_all))
                           ELSE m_exported
    /\ m_pc' = "exited"
    /\ m_status' = ExitInterrupted
    /\ UNCHANGED <<m_in, m_n, m_i, m_all, m_run, m_cache>>
    /\ UNCHANGED m_others

\* How the export ends: every file is written; or an exception is raised
\* before the commits file is there (the statistics, the metadata, the
\* exporter or export_to_json raise); or one is raised after export_to_json
\* has written it (export_summary, export_team_summary, export_to_csv or
\* export_repository_stats raise).
ExportOutcomes == {"written", "raised before commits", "raised after commits"}

\* After the collection: nothing to export, or the commits are filtered by
\* team and exported, one file after the other; an exception on the way
\* ends main with status 1 and leaves the files written so far.
main_export ==
    /\ Exporting
    /\ IF m_all = <<>>
       THEN /\ m_status' = ExitOk
            /\ m_exported' = m_exported
       ELSE \E outcome \in ExportOutcomes :
               /\ m_status' = IF outcome = "written" THEN ExitOk
                               ELSE ExitFailure
               /\ m_exported' = IF outcome = "raised before commits"
                                THEN m_exported
                                ELSE Len(filter_by_team(m_in, m_all))
    /\ m_pc' = "exited"
    /\ UNCHANGED <<m_in, m_n, m_i, m_all, m_http, m_run, m_cache>>
    /\ UNCHANGED m_others

MNext ==
    \/ main_configure
    \/ main_test_connection
    \/ main_repositories
    \/ main_collect_repository
    \/ main_request
    \/ main_interrupt
    \/ main_export

(***************************************************************************)
(* Specifications                                                          *)
(***************************************************************************)
InitTransport ==
    TInit /\ GIdle /\ BIdle /\ CIdle /\ PIdle /\ MIdle
SpecTransport == InitTransport /\ [][TNext]_vars

InitListing ==
    GInit /\ TIdle /\ BIdle /\ CIdle /\ PIdle /\ MIdle
SpecListing == InitListing /\ [][GNext]_vars

InitBranch ==
    BInit /\ TIdle /\ GIdle /\ CIdle /\ PIdle /\ MIdle
SpecBranch == InitBranch /\ [][BNext]_vars

InitCollectRepository ==
    CInitRepository /\ TIdle /\ GIdle /\ BIdle /\ PIdle /\ MIdle
SpecCollectRepository == InitCollectRepository /\ [][CNext]_vars

InitCollectAll ==
    CInitAll /\ TIdle /\ GIdle /\ BIdle /\ PIdle /\ MIdle
SpecCollectAll == InitCollectAll /\ [][CNext]_vars

InitCollectBranch ==
    CInitBranch /\ TIdle /\ GIdle /\ BIdle /\ PIdle /\ MIdle
SpecCollectBranch == InitCollectBranch /\ [][CNext]_vars

InitCollectPages ==
    CInitPages /\ TIdle /\ GIdle /\ BIdle /\ PIdle /\ MIdle
SpecCollectPages == InitCollectPages /\ [][CNext]_vars

InitTeams ==
    PInitTeams /\ TIdle /\ GIdle /\ BIdle /\ CIdle /\ MIdle
SpecTeams == InitTeams /\ [][PNextTeams]_vars

InitFilter ==
    PInitFilter /\ TIdle /\ GIdle /\ BIdle /\ CIdle /\ MIdle
SpecFilter == InitFilter /\ [][PNextFilter]_vars

InitMain ==
    MInit /\ TIdle /\ GIdle /\ BIdle /\ CIdle /\ PIdle
SpecMain == InitMain /\ [][MNext]_vars

InitParse ==
    PInitParse /\ TIdle /\ GIdle /\ BIdle /\ CIdle /\ MIdle
SpecParse == InitParse /\ [][PNextParse]_vars

InitCollectFilters ==
    CInitFilters /\ TIdle /\ GIdle /\ BIdle /\ PIdle /\ MIdle
SpecCollectFilters == InitCollectFilters /\ [][CNext]_vars

\* The calls that have to end: one _make_request, one get_commits and one
\* collect_multiple_repositories, each run on its own. The thread that runs a
\* call keeps running it: session.get is given a timeout, time.sleep returns,
\* and no step waits for another thread. The client and the collector are
\* built with the constructors' max_retries, fetch_detailed_commits and
\* auto_detect_branch.
MaxFairRepos == 2     \* len(repos_config) ranges over 0..MaxFairRepos in these calls
InitCalls ==
    \/ /\ InitTransport
       /\ t_cfg = [max_retries |-> StopAfterAttempt, rate_limit_buffer |-> MaxBuffer]
       /\ t_now = 0
    \/ InitListing
    \/ /\ InitCollectAll
       /\ c_cfg.fetch_detailed_commits /\ c_cfg.auto_detect_branch
       /\ c_n <= MaxFairRepos
NextCalls == TNext \/ GNext \/ CNext
SpecCallsFair ==
    /\ InitCalls
    /\ [][NextCalls]_vars
    /\ WF_vars(TNext) /\ WF_vars(GNext) /\ WF_vars(CNext)

(***************************************************************************)
(* Claims                                                                  *)
(***************************************************************************)
RECURSIVE ConcatPages(_, _)
ConcatPages(in, p) == IF p = 0 THEN <<>> ELSE ConcatPages(in, p - 1) \o Respond(in, p)

\* The first page holding fewer than 100 items, all pages before it holding
\* exactly 100.
FirstShortPage(in) ==
    CHOOSE p \in 1..(Len(in.pages) + 1) :
        /\ Len(Respond(in, p)) < 100
        /\ \A j \in 1..(p - 1) : Len(Respond(in, j)) = 100

\* The answers validate_branch gave in one call do not contradict each other.
Oracles == [Branches -> BOOLEAN]
Agrees(O, log) == \A i \in 1..Len(log) : O[log[i].branch] = log[i].ret

RECURSIVE FirstValidOf(_, _, _)
FirstValidOf(list, O, i) ==
    IF i > Len(list) THEN "main"
    ELSE IF O[list[i]] THEN list[i]
    ELSE FirstValidOf(list, O, i + 1)

\* The priority chain: the preferred branch if it is given and validates,
\* else the detected default if it validates, else the first of main, master,
\* develop, trunk that validates, else "main".
PriorityChain(given, preferred, default, O) ==
    IF given /\ O[preferred] THEN preferred
    ELSE IF O[default] THEN default
    ELSE FirstValidOf(<<"main", "master", "develop", "trunk">>, O, 1)

FallbackDone == b_call.op = "get_branch_with_fallback" /\ b_call.pc = "done"

\* C1 as stated: for every preferred branch that is not None, and every way
\* validate_branch answers the same for a branch throughout the call, the
\* result of get_branch_with_fallback is the value of the priority chain.
C1_Original ==
    FallbackDone =>
        \A O \in Oracles :
            Agrees(O, b_vlog) =>
                b_call.ret = PriorityChain(b_call.arg # NoBranch, b_call.arg,
                                           b_call.default, O)

\* C1, amended: the same for every preferred branch that is neither None nor
\* the empty string; an empty preferred branch is treated as not given.
C1_PriorityChain ==
    FallbackDone =>
        /\ ~b_call.raised
        /\ \A O \in Oracles :
              Agrees(O, b_vlog) =>
                  b_call.ret = PriorityChain(Truthy(b_call.arg), b_call.arg,
                                             b_call.default, O)

\* A call that came to step 3: preferred and default failed, main failed,
\* master validated.
C1_Witness ==
    /\ FallbackDone
    /\ b_call.arg = "feature"
    /\ b_call.default = "develop"
    /\ b_call.step = 3
    /\ b_call.ret = "master"
    /\ Len(b_vlog) = 4

\* Every state in which a detect_default_branch has just run: the call on its
\* own, and the one inside get_branch_with_fallback.
Detected ==
    \/ b_call.op = "detect_default_branch" /\ b_call.pc = "done"
    \/ b_call.op = "get_branch_with_fallback" /\ b_call.pc = "default"

\* The detail fetch fails per sha: two listed commits with the same sha have
\* the same outcome.
FailsPerSha(shas, failAt) ==
    \A i, j \in 1..Len(shas) :
        shas[i] = shas[j] => ((i \in failAt) <=> (j \in failAt))

\* C6 as stated: with detail fetching enabled, whatever detail fetches fail,
\* a collect_repository_commits whose listing returned n commits does not
\* raise and returns n records in listing order: from the detail data, with
\* its files, where the detail fetch succeeded, and from the summary data,
\* with no files, where it failed.
C6_Original ==
    LET env  == c_last.env
        res  == c_last.result
        shas == env.listing.commits
    IN  (/\ c_last.made
         /\ c_cfg.fetch_detailed_commits
         /\ env.parse /\ env.info /\ ~env.listing.raised
         /\ FailsPerSha(shas, env.failAt))
        => /\ ~res.raised
           /\ Len(res.commits) = Len(shas)
           /\ \A i \in 1..Len(shas) :
                 /\ res.commits[i].sha = (IF HasSha(shas[i]) THEN shas[i] ELSE "")
                 /\ (HasSha(shas[i]) /\ i \notin env.failAt)
                       => /\ res.commits[i].kind = "detail"
                          /\ res.commits[i].files = FilesOf(shas[i])
                 /\ (~HasSha(shas[i]) \/ i \in env.failAt)
                       => /\ res.commits[i].kind = "summary"
                          /\ res.commits[i].files = 0

\* A listed commit a record can be built from: its "sha" is not null and
\* its "commit"."author" is not null.
WellFormed(sha) == sha # NullSha /\ sha \notin NullAuthorShas

\* The positions of the listing that hold a well formed commit, in order.
WellFormedPositions(shas) ==
    SelectSeq([i \in 1..Len(shas) |-> i], LAMBDA i : WellFormed(shas[i]))

\* C6: with detail fetching enabled, whatever detail fetches fail, a
\* collect_repository_commits whose listing returned n commits does not raise
\* and returns one record for every well formed listed commit, in listing
\* order, and none for the others (n records when all n are well formed):
\* from the detail data, with its files, where the detail fetch succeeded,
\* and from the summary data, with no files, where it failed or the commit
\* has no sha.
C6_DetailFallback ==
    LET env  == c_last.env
        res  == c_last.result
        shas == env.listing.commits
        kept == WellFormedPositions(shas)
    IN  (/\ c_last.made
         /\ c_cfg.fetch_detailed_commits
         /\ env.parse /\ env.info /\ ~env.listing.raised
         /\ FailsPerSha(shas, env.failAt))
        => /\ ~res.raised
           /\ Len(res.commits) = Len(kept)
           /\ (\A i \in 1..Len(shas) : WellFormed(shas[i]))
                 => Len(res.commits) = Len(shas)
           /\ \A k \in 1..Len(kept) :
                 LET i == kept[k]
                 IN  /\ res.commits[k].sha = (IF shas[i] = NoSha THEN "" ELSE shas[i])
                     /\ (shas[i] # NoSha /\ i \notin env.failAt)
                           => /\ res.commits[k].kind = "detail"
                              /\ res.commits[k].files = FilesOf(shas[i])
                     /\ (shas[i] = NoSha \/ i \in env.failAt)
                           => /\ res.commits[k].kind = "summary"
                              /\ res.commits[k].files = 0

\* Three listed commits: the first is built from its detail, the second has
\* a null sha and is left out, the detail fetch of the third fails.
C6_Witness ==
    /\ c_last.made
    /\ c_cfg.fetch_detailed_commits
    /\ c_last.env.listing.commits = <<"s1", NullSha, "s2">>
    /\ c_last.env.failAt = {3}
    /\ ~c_last.result.raised
    /\ Len(c_last.result.commits) = 2
    /\ c_last.result.commits[1].kind = "detail"
    /\ c_last.result.commits[2].sha = "s2"
    /\ c_last.result.commits[2].kind = "summary"

RECURSIVE Gathered(_, _)
Gathered(log, i) ==
    IF i = 0 THEN <<>>
    ELSE Gathered(log, i - 1) \o (IF log[i].raised THEN <<>> ELSE log[i].commits)

\* C7: whichever repositories' collections raise, collect_multiple_repositories
\* raises nothing and returns exactly the commits of the repositories whose
\* collection succeeded, each repository's commits together and the
\* repositories in configuration order.
C7_OrchestratorResilience ==
    /\ c_pc # "raised"
    /\ c_pc = "returned" =>
          /\ Len(c_log) = c_n
          /\ c_all = Gathered(c_log, c_n)
          /\ \A i \in 1..Len(c_all) : ~c_log[c_all[i].repo].raised
          /\ \A i, j \in 1..Len(c_all) : i <= j => c_all[i].repo <= c_all[j].repo

\* Three repositories, the collection of the second one raises.
C7_Witness ==
    /\ c_pc = "returned"
    /\ c_n = 3
    /\ ~c_log[1].raised /\ c_log[2].raised /\ ~c_log[3].raised
    /\ Len(c_log[1].commits) = 2
    /\ Len(c_log[3].commits) = 1
    /\ Len(c_all) = 3
    /\ c_all[2].repo = 1 /\ c_all[3].repo = 3

\* C8: detect_default_branch never raises; when the metadata request fails it
\* returns "main"; when it succeeds it returns the default_branch field, or
\* "main" when the field is absent.
C8_DetectNeverRaises ==
    /\ b_call.op = "detect_default_branch" => ~b_call.raised
    /\ Detected =>
          /\ ~b_call.raised
          /\ b_call.info = InfoFail => b_call.default = "main"
          /\ b_call.info = InfoAbsent => b_call.default = "main"
          /\ b_call.info \in Branches => b_call.default = b_call.info

\* A detection whose metadata request failed.
C8_Witness ==
    /\ b_call.op = "detect_default_branch"
    /\ b_call.pc = "done"
    /\ b_call.info = InfoFail
    /\ b_call.ret = "main"

\* C9 as stated: after a first successful detection for a repository and no
\* clear_cache since, every later detect_default_branch for it returns that
\* same value and makes no metadata request.
C9_Original ==
    (Detected /\ b_call.hadFirst) =>
        /\ ~b_call.requested
        /\ b_call.default = b_first[b_call.repo]

\* C9, amended: every such later call makes no metadata request and returns
\* the cached value, which is the first detection's value unless the fallback
\* search of get_branch_with_fallback rewrote the entry in between.
C9_CachedDetection ==
    (Detected /\ b_call.hadFirst) =>
        /\ ~b_call.requested
        /\ b_call.default = b_cache[b_call.repo]
        /\ ~b_replaced[b_call.repo] => b_call.default = b_first[b_call.repo]

\* A second detection served from the cache.
C9_Witness ==
    /\ b_call.op = "detect_default_branch"
    /\ b_call.pc = "done"
    /\ b_call.hadFirst
    /\ ~b_replaced[b_call.repo]
    /\ b_call.ret = "feature"
    /\ b_first[b_call.repo] = "feature"

\* C10: get_branch_with_fallback never raises, whatever requests fail, and
\* always returns a branch name.
C10_FallbackNeverRaises ==
    b_call.op = "get_branch_with_fallback" =>
        /\ ~b_call.raised
        /\ b_call.pc = "done" => b_call.ret \in Branches

\* A call in which the metadata request and a listing failed.
C10_Witness ==
    /\ FallbackDone
    /\ b_call.info = InfoFail
    /\ b_call.errors
    /\ b_call.ret = "main"
    /\ b_call.step = 4

\* C11: validate_branch never raises and returns true exactly when the
\* listing for the branch returned at least one commit: false when the listing
\* is empty and when the listing fails with an error. The same holds for every
\* validate_branch made inside get_branch_with_fallback.
C11_ValidateBranch ==
    /\ (b_call.op = "validate_branch" /\ b_call.pc = "done") =>
          /\ ~b_call.raised
          /\ b_call.listing \in Listings
          /\ b_call.valid <=> (b_call.listing = "commits")
          /\ b_call.listing \in {"empty", "error"} => ~b_call.valid
    /\ (b_call.op = "get_branch_with_fallback" /\ Len(b_vlog) > 0) =>
          /\ ~b_call.raised
          /\ b_vlog[Len(b_vlog)].ret <=> (b_call.listing = "commits")

\* A validate_branch whose listing returned no commit.
C11_Witness ==
    /\ b_call.op = "validate_branch"
    /\ b_call.pc = "done"
    /\ b_call.listing = "empty"
    /\ ~b_call.valid
    /\ ~b_call.raised

\* C12: the get_commits call of validate_branch (per_page=1) on a branch that
\* holds at least one commit issues exactly one commit-listing request and
\* retrieves exactly one commit.
C12_ValidateFetchesOneCommit ==
    (/\ g_in.per_page = ValidatePerPage
     /\ g_in.failAt = 0
     /\ Len(Respond(g_in, 1)) >= 1)
    => /\ Len(g_reqs) <= 1
       /\ g_pc = "returned" => (Len(g_reqs) = 1 /\ Len(g_all) = 1)

\* C17 as stated: whenever get_branch_with_fallback returns at step 2, the
\* cache entry of the repository holds the returned branch, also when the
\* detection fell back to "main" after a failed metadata request.
C17_Original ==
    (FallbackDone /\ b_call.step = 2) => b_cache[b_call.repo] = b_call.ret

\* C17, amended: at a return at step 2 the cache entry holds the returned
\* branch when the detection took its value from the cache or from an answered
\* metadata request; when the metadata request failed, the returned branch is
\* "main" and the cache holds no entry for the repository.
C17_Step2Cached ==
    (FallbackDone /\ b_call.step = 2) =>
        /\ b_call.ret = b_call.default
        /\ b_call.info # InfoFail => b_cache[b_call.repo] = b_call.ret
        /\ b_call.info = InfoFail
              => (b_call.ret = "main" /\ b_cache[b_call.repo] = NoBranch)

\* A return at step 2 after a failed metadata request.
C17_Witness ==
    /\ FallbackDone
    /\ b_call.step = 2
    /\ b_call.info = InfoFail
    /\ b_call.ret = "main"
    /\ b_cache[b_call.repo] = NoBranch

\* C18: after a return at step 3 the cache entry of the repository is the
\* returned candidate, one of main, master, develop, trunk; at a return of the
\* last-resort "main" at step 4 the entry is what the detection left: step 4
\* has written nothing.
C18_FallbackSearchCaching ==
    /\ (FallbackDone /\ b_call.step = 3) =>
          /\ b_call.ret \in {"main", "master", "develop", "trunk"}
          /\ b_call.ret # b_call.default
          /\ b_cache[b_call.repo] = b_call.ret
    /\ (FallbackDone /\ b_call.step = 4) =>
          /\ b_call.ret = "main"
          /\ b_cache[b_call.repo] =
                (IF b_call.info = InfoFail THEN NoBranch ELSE b_call.default)

\* A return at step 3 with develop, over a cached default.
C18_Witness ==
    /\ FallbackDone
    /\ b_call.step = 3
    /\ b_call.default = "feature"
    /\ b_call.ret = "develop"
    /\ b_cache[b_call.repo] = "develop"

\* C19: after clear_cache the cache holds no entry for any repository, and it
\* stays so until the next detect_default_branch, which makes a metadata
\* request whatever repository it is for.
C19_ClearCache ==
    /\ b_call.op = "clear_cache" => \A k \in Repos : b_cache[k] = NoBranch
    /\ b_cleared.on => \A k \in Repos : b_cache[k] = NoBranch
    /\ b_call.afterClear => b_call.requested

\* A detection for a repository whose entry clear_cache had removed.
C19_Witness ==
    /\ b_call.op = "detect_default_branch"
    /\ b_call.pc = "done"
    /\ b_call.afterClear
    /\ b_call.heldBefore
    /\ b_call.requested
    /\ b_call.ret = "master"

\* C2: with the default page size and every page request answered, get_commits
\* requests the pages 1, 2, ..., p in that order, each once, where p is the
\* first page holding fewer than 100 items; it requests no page after p and
\* returns the concatenation of the pages 1..p in provider order.
C2_PaginationStopsAtFirstShortPage ==
    (/\ g_in.per_page = 100
     /\ g_in.failAt \notin 1..FirstShortPage(g_in))
    => /\ \A i \in 1..Len(g_reqs) : g_reqs[i].page = i
       /\ Len(g_reqs) <= FirstShortPage(g_in)
       /\ g_pc # "raised"
       /\ g_pc = "returned" =>
             /\ Len(g_reqs) = FirstShortPage(g_in)
             /\ g_all = ConcatPages(g_in, FirstShortPage(g_in))

\* Pages of sizes [100, 100, 37]: 237 commits with 3 requests.
C2_Witness ==
    /\ g_pc = "returned"
    /\ g_in.per_page = 100
    /\ Len(g_in.pages) = 3
    /\ Len(g_in.pages[1]) = 100 /\ Len(g_in.pages[2]) = 100
    /\ Len(g_in.pages[3]) \in 1..99
    /\ Len(g_all) = 200 + Len(g_in.pages[3])
    /\ Len(g_reqs) = 3

IsFailure(out) == out.kind # "ok"
IsTransient(out) == out.kind \in {"network", "ratelimit"}
CallEnded == t_pc \in {"returned", "raised"}

\* C3: if the first k-1 attempts of one _make_request fail with a network or
\* a rate-limit error and attempt k <= 3 succeeds, the call returns the body
\* of attempt k after exactly k attempts; if every attempt fails, the call
\* ends in an error after exactly 3 attempts; there is never a fourth attempt.
C3_RetryThenSucceedOrGiveUp ==
    /\ t_attempt = Len(t_outs)
    /\ t_attempt <= 3
    /\ \A k \in 1..Len(t_outs) :
          (/\ t_outs[k].kind = "ok"
           /\ \A j \in 1..(k - 1) : IsTransient(t_outs[j]))
          => /\ t_pc = "returned"
             /\ t_result = Returned(t_outs[k].body)
             /\ t_attempt = k
    /\ (CallEnded /\ \A k \in 1..Len(t_outs) : IsFailure(t_outs[k]))
          => /\ t_pc = "raised"
             /\ t_attempt = 3

\* Two transient failures, then success on the third attempt.
C3_Witness ==
    /\ t_pc = "returned"
    /\ t_attempt = 3
    /\ t_outs[1].kind = "network"
    /\ t_outs[2].kind = "ratelimit"
    /\ t_result.body = "b2"

\* C13: an attempt answered with a 404, or with a 403 that is no rate-limit
\* signal, is the only attempt of its _make_request: the call ends there, with
\* that HTTP error given to the caller and no retry.
C13_PermanentErrorNotRetried ==
    \A k \in 1..Len(t_outs) :
        (t_outs[k].kind = "http" /\ t_outs[k].status \in {403, 404})
        => /\ k = 1
           /\ t_attempt = 1
           /\ t_pc = "raised"
           /\ t_result = t_outs[k]

\* C4: a permanently failing request is attempted exactly max_retries times,
\* for every max_retries given to the client.
C4_AttemptsFollowMaxRetries ==
    /\ t_pc # "off" => t_attempt <= t_cfg.max_retries
    /\ (t_pc = "raised" /\ \A k \in 1..Len(t_outs) : IsFailure(t_outs[k]))
          => t_attempt = t_cfg.max_retries

\* C5: when the rate-limit status reports remaining <= buffer, the API request
\* is sent only once the reported reset time has elapsed; when it reports
\* remaining > buffer, nothing is slept before the request.
C5_RateLimitBlocking ==
    /\ (t_pc = "send" /\ t_rate.ok)
          => /\ t_rate.remaining <= t_cfg.rate_limit_buffer => t_now >= t_rate.reset
             /\ t_rate.remaining > t_cfg.rate_limit_buffer => t_slept = 0
    /\ (t_pc \in {"backoff", "returned", "raised"} /\ t_rate.ok)
          => /\ t_rate.remaining <= t_cfg.rate_limit_buffer
                   => t_issuedAt >= t_rate.reset
             /\ t_rate.remaining > t_cfg.rate_limit_buffer
                   => (t_slept = 0 /\ t_issuedAt = t_now)

\* A request sent after a sleep caused by remaining = buffer.
C5_Witness ==
    /\ t_pc = "returned"
    /\ t_rate.ok
    /\ t_rate.remaining = t_cfg.rate_limit_buffer
    /\ t_slept > 0
    /\ t_issuedAt = t_rate.reset + 1

\* Two characters are the same letter, whatever their case.
SameLetter(c, d) ==
    \/ c = d
    \/ \E i \in 1..Len(UpperCase) : {c, d} = {UpperCase[i], LowerCase[i]}

\* The text holds "rate limit" somewhere, in any letter case.
MentionsRateLimit(text) ==
    \E at \in 0..(Len(text) - Len(RateLimitText)) :
        \A j \in 1..Len(RateLimitText) : SameLetter(text[at + j], RateLimitText[j])

LastOut == t_outs[Len(t_outs)]

\* C14: a response is classified as a rate-limit error exactly when its status
\* is 403 and its text holds "rate limit" in any letter case; a 403 without
\* that text, and every other status that is an error, is classified as an
\* HTTP error of that status and not as a rate-limit error.
C14_RateLimitClassification ==
    (t_attempt >= 1 /\ ~t_resp.net) =>
        /\ (LastOut.kind = "ratelimit")
              <=> (t_resp.status = 403 /\ MentionsRateLimit(t_resp.text))
        /\ (t_resp.status = 403 /\ ~MentionsRateLimit(t_resp.text))
              => (LastOut.kind = "http" /\ LastOut.status = 403)
        /\ t_resp.status \in {404, 500}
              => (LastOut.kind = "http" /\ LastOut.status = t_resp.status)
        /\ t_resp.status = 200 => LastOut.kind = "ok"

\* A 403 whose text is "Rate Limit!", taken for a rate-limit error.
C14_Witness ==
    /\ t_attempt = 1
    /\ t_resp.status = 403
    /\ t_resp.text = TextRateLimitMixed
    /\ LastOut.kind = "ratelimit"

\* C15: a failure to read the rate-limit status never fails the request: the
\* check raises nothing and sleeps nothing, and the API request is issued next.
C15_RateCheckFailureNonFatal ==
    /\ t_pc = "raised" => (t_attempt >= 1 /\ t_result.kind # "ratecheck")
    /\ t_queries > t_attempt => t_pc = "send"
    /\ (t_queries >= 1 /\ ~t_rate.ok)
          => /\ t_rate.why \in RateFailures
             /\ t_slept = 0
             /\ t_pc \in {"backoff", "returned", "raised"} => t_issuedAt = t_now

\* A request answered after a rate-limit status with a malformed body.
C15_Witness ==
    /\ t_pc = "returned"
    /\ t_attempt = 1
    /\ t_rate.why = "malformed"
    /\ t_slept = 0

\* C16: every API request attempt of one _make_request, its retries included,
\* comes after a rate-limit status query of its own: attempt number n is sent
\* when n queries have been made, and a query is followed by an attempt.
C16_QueryBeforeEveryAttempt ==
    /\ t_pc = "send" => t_queries = t_attempt + 1
    /\ t_pc \in {"idle", "check", "backoff", "returned", "raised"}
          => t_queries = t_attempt

\* A third attempt, about to be sent after the third query.
C16_Witness ==
    /\ t_pc = "send"
    /\ t_attempt = 2
    /\ t_queries = 3

\* The branch the last collection gave to get_commits.
ListedBranch(calls) ==
    calls[CHOOSE k \in 1..Len(calls) : calls[k].fn = "get_commits"].arg

\* validate_branch as the environment of the last collection answers it.
OracleOf(env) == [b \in Branches |-> b \in env.valid]

\* The last collection pinned a branch, with auto-detection enabled, and came
\* to list the commits.
PinnedWithAutoDetect ==
    /\ c_last.made
    /\ c_cfg.auto_detect_branch
    /\ c_last.config.branch # NoBranch
    /\ c_last.env.parse
    /\ c_last.env.info

Range(q) == {q[i] : i \in 1..Len(q)}

\* What C20 says of a collection, the pinned branch counting as given or not.
ListsFallbackResult(given) ==
    LET pinned   == c_last.config.branch
        resolved == c_last.result.resolved
        listed   == ListedBranch(c_last.result.calls)
        O        == OracleOf(c_last.env)
    IN  /\ c_last.result.calls[1] = Call("get_branch_with_fallback", pinned)
        /\ listed = resolved.branch
        /\ (given /\ O[pinned]) => listed = pinned
        /\ ~(given /\ O[pinned])
              => listed = PriorityChain(FALSE, pinned, resolved.default, O)
        /\ listed = pinned => pinned \in Range(resolved.validated)

\* C20 as stated: with auto-detection enabled and a branch pinned in the
\* configuration, the branch listed is the value of get_branch_with_fallback
\* with the pinned branch as preferred: the pinned branch if it validates, the
\* choice of the fallback chain otherwise, and the pinned branch only after a
\* validate_branch of it.
C20_Original ==
    PinnedWithAutoDetect => ListsFallbackResult(TRUE)

\* C20, amended: the same for a pinned branch that is not the empty string; an
\* empty pinned branch is handed to get_branch_with_fallback, which never
\* validates it and lets the fallback chain decide.
C20_PinnedBranchValidated ==
    PinnedWithAutoDetect =>
        /\ ListsFallbackResult(Truthy(c_last.config.branch))
        /\ c_last.config.branch = ""
              => "" \notin Range(c_last.result.resolved.validated)

\* A pinned branch that does not validate: the detection fails, main does not
\* validate, and master is listed.
C20_Witness ==
    /\ PinnedWithAutoDetect
    /\ c_last.config.branch = "feature"
    /\ c_last.env.default = InfoFail
    /\ c_last.env.valid = {"master"}
    /\ c_last.result.resolved.validated = <<"feature", "main", "master">>
    /\ ListedBranch(c_last.result.calls) = "master"

(***************************************************************************)
(* C21: every repository is collected with the global filters overridden   *)
(* by its own: for date_from, date_to and author the repository's value    *)
(* when the repository sets the key and the global value otherwise, and    *)
(* the overrides of one repository never change the filters of another.    *)
(***************************************************************************)
ExpectedFilter(given, key) ==
    IF key \in DOMAIN given THEN given[key]
    ELSE IF key \in DOMAIN c_global THEN c_global[key]
    ELSE NoFilter

C21_FilterMerge ==
    \A i \in 1..Len(c_log) : \A key \in FilterKeys :
        c_log[i].filters[key] = ExpectedFilter(c_log[i].given, key)

\* Two repositories: the first overrides a global key, the second does not
\* and is collected with the global value.
C21_Witness ==
    /\ c_scope = "filters"
    /\ Len(c_log) = 2
    /\ "date_from" \in DOMAIN c_global
    /\ "date_from" \in DOMAIN c_log[1].given
    /\ c_log[1].filters["date_from"] = "2024-06-01"
    /\ "date_from" \notin DOMAIN c_log[2].given
    /\ c_log[2].filters["date_from"] = "2024-01-01"

(***************************************************************************)
(* C22: a repository whose commit listing fails on any page, a later page  *)
(* after successful ones included, or whose metadata request fails,        *)
(* contributes no commit to the run, and the run goes on to the            *)
(* repositories after it.                                                  *)
(***************************************************************************)
\* The listing fails: a page request among those of the pagination fails, or,
\* where the listing is not given page by page, get_commits raises.
ListingFails(env) ==
    IF "in" \in DOMAIN env
    THEN env.in.failAt \in 1..FirstShortPage(env.in)
    ELSE env.listing.raised

FailsToList(env) == env.parse /\ (~env.info \/ ListingFails(env))

\* The last Len(q) records of all_commits are q.
EndsWith(all, q) ==
    /\ Len(q) <= Len(all)
    /\ SubSeq(all, Len(all) - Len(q) + 1, Len(all)) = q

C22_FailedListingContributesNothing ==
    /\ c_pc # "raised"
    /\ c_pc = "returned" => Len(c_log) = c_n
    /\ c_last.made =>
          /\ FailsToList(c_last.env) =>
                /\ c_last.result.raised
                /\ c_log[c_i].commits = <<>>
                /\ \A k \in 1..Len(c_all) : c_all[k].repo # c_i
          /\ ~c_last.result.raised => EndsWith(c_all, c_last.result.commits)

\* The first repository failed on its second page request, the first page
\* having been received; the second repository was collected after it.
C22_Witness ==
    /\ c_scope = "all"
    /\ c_pc = "returned"
    /\ Len(c_log) = 2
    /\ c_log[1].raised /\ c_log[1].requests = 2
    /\ ~c_log[2].raised
    /\ c_all = c_log[2].commits
    /\ c_all # <<>>

\* The commits the provider lists for a repository, in its order: the pages
\* up to the first short one, and the sha each record is to carry.
ProviderOrder(env) == ConcatPages(env.in, FirstShortPage(env.in))
RecordSha(env, item) == IF item \in env.noSha THEN "" ELSE sha_name(item)
\* The listed commits a record is built from: all but those with a null sha.
BuiltFrom(env, items) == SelectSeq(items, LAMBDA item : item \notin env.nullSha)

PagedCollection == c_last.made /\ c_scope = "pages"

(***************************************************************************)
(* C23: the commits returned for one repository are in the order the       *)
(* provider listed them, page after page, with or without detail fetching  *)
(* and whatever detail fetches fail: the records are those of the listed   *)
(* commits a record is built from, one each, in the order of the listing.  *)
(***************************************************************************)
C23_ListingOrderKept ==
    (PagedCollection /\ ~ListingFails(c_last.env))
    => LET items == BuiltFrom(c_last.env, ProviderOrder(c_last.env))
           res   == c_last.result
       IN  /\ ~res.raised
           /\ Len(res.commits) = Len(items)
           /\ \A i \in 1..Len(items) :
                 res.commits[i].sha = RecordSha(c_last.env, items[i])
           /\ c_all = res.commits

\* Two pages, 100 and 37 commits, details fetched and failing for the third
\* commit and for the first one of the second page; the fourth commit has a
\* null sha and is left out, the others keep their order around it.
C23_Witness ==
    /\ PagedCollection
    /\ c_cfg.fetch_detailed_commits
    /\ c_last.env.in.failAt = 0
    /\ Len(c_last.env.in.pages) = 2
    /\ Len(c_last.env.in.pages[1]) = 100
    /\ Len(c_last.env.in.pages[2]) = PartialSize
    /\ c_last.env.in.pages[2][1] = 101
    /\ c_last.env.failAt = {3, 101}
    /\ c_last.env.nullSha = {4}
    /\ Len(c_last.result.commits) = 100 + PartialSize - 1
    /\ c_last.result.commits[3].sha = "c3"
    /\ c_last.result.commits[4].sha = "c5"
    /\ c_last.result.commits[99].sha = "c100"
    /\ c_last.result.commits[99].kind = "detail"
    /\ c_last.result.commits[100].sha = "c101"
    /\ c_last.result.commits[100].kind = "summary"

(***************************************************************************)
(* C24: the commits collected for one repository hold no two records with  *)
(* the same sha, also when the provider's history grows between two page   *)
(* requests and a commit is listed on two consecutive pages.               *)
(***************************************************************************)
C24_NoDuplicateSha ==
    (PagedCollection /\ ~c_last.result.raised)
    => \A i, j \in 1..Len(c_last.result.commits) :
          (/\ i # j
           /\ c_last.result.commits[i].sha # "")
          => c_last.result.commits[i].sha # c_last.result.commits[j].sha

(***************************************************************************)
(* C27: with detail fetching enabled, get_commit_details is called once    *)
(* for every listed commit that has a sha, in listing order, and only      *)
(* after the last page of the listing has been received; with detail       *)
(* fetching disabled, or an empty or failed listing, it is never called.   *)
(***************************************************************************)
IsDetailCall(call) == call.fn = "get_commit_details"
IsListingCall(call) == call.fn \in {"get_commits", "commits_page"}
IsSha(sha) == sha # ""
\* The sha a detail is asked for: none for a commit whose sha is missing,
\* empty or null.
AskedSha(env, item) ==
    IF item \in env.noSha \cup env.nullSha THEN "" ELSE sha_name(item)

C27_DetailCallsFollowListing ==
    PagedCollection
    => LET env    == c_last.env
           calls  == c_last.result.calls
           items  == ProviderOrder(env)
           listed == [i \in 1..Len(items) |-> AskedSha(env, items[i])]
           asked  == SelectSeq(listed, IsSha)
           made   == SelectSeq(calls, IsDetailCall)
       IN  /\ \A d, p \in 1..Len(calls) :
                 (IsDetailCall(calls[d]) /\ IsListingCall(calls[p])) => p < d
           /\ (c_cfg.fetch_detailed_commits /\ ~ListingFails(env))
                 => /\ Len(made) = Len(asked)
                    /\ \A k \in 1..Len(asked) : made[k].arg = asked[k]
           /\ (~c_cfg.fetch_detailed_commits \/ ListingFails(env)
                    \/ items = <<>>)
                 => made = <<>>
           /\ Len(SelectSeq(calls, IsListingCall))
                 = 1 + Min(FirstShortPage(env.in),
                           IF env.in.failAt = 0 THEN FirstShortPage(env.in)
                           ELSE env.in.failAt)

\* A full page and a page of one commit; the second commit has no sha: two
\* page requests, then 99 detail calls, c1, c3, ..., c101.
C27_Witness ==
    /\ PagedCollection
    /\ c_cfg.fetch_detailed_commits
    /\ c_last.env.in.failAt = 0
    /\ Len(c_last.env.in.pages) = 2
    /\ Len(c_last.env.in.pages[1]) = 100
    /\ c_last.env.in.pages[2] = <<101>>
    /\ c_last.env.noSha = {2}
    /\ c_last.env.failAt = {1}
    /\ Len(c_last.result.calls) = 4 + 100
    /\ c_last.result.calls[4] = Call("commits_page", "2")
    /\ c_last.result.calls[5] = Call("get_commit_details", "c1")
    /\ c_last.result.calls[6] = Call("get_commit_details", "c3")
    /\ c_last.result.calls[104] = Call("get_commit_details", "c101")

(***************************************************************************)
(* C28: the wait before a retry of _make_request is an exponential         *)
(* backoff: the unclamped delay doubles with every attempt, the delay      *)
(* slept is never below 2 seconds and never above 10 seconds, and the next *)
(* attempt is not issued before the delay has elapsed.                     *)
(***************************************************************************)
C28_ExponentialBackoff ==
    /\ \A n \in 1..MaxAttemptNumber :
          /\ wait_unclamped(n + 1) = 2 * wait_unclamped(n)
          /\ wait_exponential(n) \in 2..10
          /\ wait_unclamped(n) \in 2..10 => wait_exponential(n) = wait_unclamped(n)
    /\ \A k \in 1..Len(t_waits) :
          /\ t_waits[k] \in 2..10
          /\ t_waits[k] = Max(2, Min(10, wait_unclamped(k)))
    /\ t_pc \in {"check", "send"} =>
          /\ Len(t_waits) = t_attempt
          /\ t_attempt >= 1 => t_now >= t_issuedAt + t_waits[t_attempt]
    /\ t_pc \in {"backoff", "returned", "raised"} =>
          Len(t_waits) = t_attempt - 1

\* The third attempt is about to be sent: two delays of 2 seconds have been
\* slept, the second one after the second attempt was issued.
C28_Witness ==
    /\ t_pc = "send"
    /\ t_attempt = 2
    /\ t_waits = <<2, 2>>
    /\ t_now >= t_issuedAt + 2
    /\ t_issuedAt >= 2

(***************************************************************************)
(* C25: when an interrupt arrives during the collection, no request is     *)
(* sent after it, and the commits collected for the repositories completed *)
(* before it are exported.                                                 *)
(***************************************************************************)
Interrupted == m_pc = "exited" /\ m_status = ExitInterrupted

C25_InterruptExportsCollected ==
    /\ [][Interrupted => m_http' = m_http]_vars
    /\ [](Interrupted /\ m_all # <<>>
            => m_exported = Len(filter_by_team(m_in, m_all)))

(***************************************************************************)
(* C26: a run without the credential, and a run with no repository         *)
(* configured, ends with a failure status, no HTTP request having been     *)
(* sent.                                                                   *)
(***************************************************************************)
C26_Original ==
    (~m_in.token \/ m_in.configured = 0)
    => /\ m_http = 0
       /\ m_pc = "exited" => m_status = 1

\* As C26, for the runs without a credential and for the runs that have no
\* repository configured, none given by --repo, and no --test-connection:
\* no request is sent, and the run ends with status 1, or with status 130
\* when an interrupt ends it before the error is met.
NothingToCollect ==
    m_in.configured = 0 /\ ~m_in.repo_arg /\ ~m_in.test_connection

C26_ConfigurationErrorAborts ==
    (m_pc # "off" /\ (~m_in.token \/ NothingToCollect))
    => /\ m_http = 0
       /\ m_pc \in {"start", "repositories", "exited"}
       /\ m_pc = "exited" => m_status \in {ExitFailure, ExitInterrupted}
       /\ m_exported = NotExported

\* A run with the credential and an empty repositories.yaml has ended.
C26_Witness ==
    /\ m_pc = "exited"
    /\ m_in.token
    /\ NothingToCollect
    /\ m_status = 1
    /\ m_http = 0

\* Two usernames that differ in letter case at most.
SameName(u, v) ==
    /\ Len(u) = Len(v)
    /\ \A i \in 1..Len(u) : SameLetter(u[i], v[i])

\* The teams whose member list holds the username, letter case aside.
ConfiguredTeams(team_config, username) ==
    {team_config.teams[i].name :
        i \in {k \in 1..Len(team_config.teams) :
                  \E j \in 1..Len(team_config.teams[k].members) :
                      SameName(team_config.teams[k].members[j], username)}}

ConfiguredDefault(team_config) ==
    IF "default_team" \in DOMAIN team_config THEN team_config.default_team
    ELSE "unassigned"

\* The add_mapping calls made for the username, letter case aside.
AddedFor(username) ==
    {i \in 1..Len(p_added) : SameName(p_added[i].username, username)}

\* The team is the one the username is configured under: the team of the
\* last add_mapping made for it, else a team of the file that lists it; the
\* default team for None, for "" and for a username configured nowhere.
IsTeamOf(team_config, username, team) ==
    IF username = NoUsername \/ username = <<>>
    THEN team = ConfiguredDefault(team_config)
    ELSE IF AddedFor(username) # {}
    THEN team = p_added[CHOOSE i \in AddedFor(username) :
                           \A k \in AddedFor(username) : k <= i].team_name
    ELSE IF ConfiguredTeams(team_config, username) = {}
    THEN team = ConfiguredDefault(team_config)
    ELSE team \in ConfiguredTeams(team_config, username)

(***************************************************************************)
(* C29: get_team returns, for a username in any letter case, the team      *)
(* that lists it, and the default team for a username that is None, empty  *)
(* or in no team; the team_name of the CommitData of process_commit is     *)
(* get_team of its author_username.                                        *)
(***************************************************************************)
C29_TeamOfUsername ==
    p_pc = "returned" =>
        /\ p_in.fn = "get_team" =>
              /\ IsTeamOf(p_in.team_config, p_in.username, p_out[1])
              /\ \A v \in Usernames :
                    (SameName(v, p_in.username) /\ v # NoUsername)
                    => get_team(p_mapper, v) = p_out[1]
        /\ p_in.fn = "process_commit" =>
              /\ p_out[1].team_name
                    = get_team(p_mapper, p_out[1].author_username)
              /\ IsTeamOf(p_in.team_config, p_out[1].author_username,
                          p_out[1].team_name)

\* "AL" is asked for where the file lists "al" under backend.
C29_Witness ==
    /\ p_pc = "returned"
    /\ p_in.fn = "get_team"
    /\ p_in.username = UserAlCaps
    /\ Len(p_in.team_config.teams) = 2
    /\ p_in.team_config.teams[1] = Team("backend", <<UserAl>>)
    /\ p_out = <<"backend">>

\* The commits filter_commits is to return: those within the date bounds
\* given, by one of the authors and of one of the teams, where authors and
\* teams count as given when `listed` says so.
Kept(in, listed(_)) ==
    SelectSeq(in.commits, LAMBDA c :
        /\ in.date_from # NoDate => c.commit_date >= in.date_from
        /\ in.date_to # NoDate => c.commit_date <= in.date_to
        /\ listed(in.authors) =>
              /\ c.author_username # NoUsername
              /\ \E i \in 1..Len(in.authors.items) :
                    SameName(in.authors.items[i], c.author_username)
        /\ listed(in.teams) =>
              \E i \in 1..Len(in.teams.items) : in.teams.items[i] = c.team_name)

IsGiven(list) == list.given
IsGivenAndNotEmpty(list) == list.given /\ list.items # <<>>

Filtered == p_in.fn = "filter_commits" /\ p_pc \in {"returned", "returned twice"}

(***************************************************************************)
(* C30 as stated: filter_commits returns the commits of its input, in      *)
(* input order, with commit_date >= date_from when date_from is given,     *)
(* commit_date <= date_to when date_to is given and team_name in teams     *)
(* when teams is given; with no criterion the input comes back unchanged;  *)
(* filtering twice gives what filtering once gives.                        *)
(***************************************************************************)
C30_Original ==
    (Filtered /\ ~p_in.authors.given)
    => /\ p_out[1] = Kept(p_in, IsGiven)
       /\ (p_in.date_from = NoDate /\ p_in.date_to = NoDate /\ ~p_in.teams.given)
             => p_out[1] = p_in.commits
       /\ p_pc = "returned twice" => p_out[2] = p_out[1]

(***************************************************************************)
(* C30: filter_commits returns the commits of its input, in input order,   *)
(* that are within the date bounds given (both inclusive), by one of the   *)
(* authors, letter case aside, when authors is given and not empty, and of *)
(* one of the teams when teams is given and not empty; an empty list       *)
(* filters nothing. With no such criterion the input comes back unchanged; *)
(* filtering twice gives what filtering once gives.                        *)
(***************************************************************************)
C30_FilterCommits ==
    Filtered
    => /\ p_out[1] = Kept(p_in, IsGivenAndNotEmpty)
       /\ (/\ p_in.date_from = NoDate /\ p_in.date_to = NoDate
            /\ ~IsGivenAndNotEmpty(p_in.authors)
            /\ ~IsGivenAndNotEmpty(p_in.teams))
             => p_out[1] = p_in.commits
       /\ p_pc = "returned twice" => p_out[2] = p_out[1]

\* Three commits dated 1, 2, 3 filtered with both bounds at 2 and teams
\* empty: the second one is kept, twice over; and no author filter.
C30_Witness ==
    /\ p_in.fn = "filter_commits"
    /\ p_pc = "returned twice"
    /\ p_in.commits = <<Commit("s1", 1, UserAl, "backend"),
                        Commit("s2", 2, UserAlCaps, "frontend"),
                        Commit("s4", MaxDate, UserBo, "frontend")>>
    /\ p_in.date_from = 2 /\ p_in.date_to = 2
    /\ p_in.teams = Given(<<>>)
    /\ p_in.authors = NoList
    /\ p_out[1] = <<Commit("s2", 2, UserAlCaps, "frontend")>>
    /\ p_out[2] = p_out[1]

\* Not empty, no path separator.
IsName(text) == Len(text) > 0 /\ ~contains(<<Slash>>, text)

\* An owner or a repository as it is written in an identifier.
IsWrittenName(text) == IsName(text) /\ \A i \in 1..Len(text) : text[i] \notin Whitespace

\* The identifier is owner/repo, with or without a prefix in front, a .git
\* suffix and a trailing slash behind, and blanks around.
InRepositoryForm(url) ==
    \E pad \in UrlPads, prefix \in UrlPrefixes,
       suffix \in {<<>>, GitSuffix}, trail \in {<<>>, <<Slash>>} :
        LET front == pad \o prefix
            back  == suffix \o trail \o pad
            names == SubSeq(url, Len(front) + 1, Len(url) - Len(back))
        IN  /\ Len(front) + Len(back) <= Len(url)
            /\ SubSeq(url, 1, Len(front)) = front
            /\ SubSeq(url, Len(url) - Len(back) + 1, Len(url)) = back
            /\ Len(split(names, Slash)) = 2
            /\ \A k \in 1..2 : IsWrittenName(split(names, Slash)[k])

\* C31: whenever parse_repo_url returns a pair for an identifier in URL form,
\* host/owner/repo form or owner/repo short form, with or without a trailing
\* slash or a .git suffix, the owner and the repository name are both not
\* empty and neither contains a path separator.
C31_ParsedNames ==
    (/\ p_pc = "returned"
     /\ p_in.fn = "parse_repo_url"
     /\ InRepositoryForm(p_in.url)
     /\ ~p_out[1].raised)
    => /\ IsName(p_out[1].owner)
       /\ IsName(p_out[1].repo)

\* The provider pages one history that does not change during the call: every
\* page but the last is full, the last one is not empty, and page k starts
\* where page k-1 ended.
UnchangedHistory(in) ==
    LET r == requested_per_page(in.per_page)
        n == Len(in.pages)
    IN  /\ \A k \in 1..n : in.pages[k] = PageItems(k, Len(in.pages[k]), r)
        /\ \A k \in 1..(n - 1) : Len(in.pages[k]) = r
        /\ n > 0 => Len(in.pages[n]) > 0

\* C33: for every per_page argument and every branch history of N commits that
\* does not change during the call, get_commits returns all N commits; with
\* per_page above 100 no commit beyond the first page is lost.
C33_AllCommitsReturned ==
    (g_pc = "returned" /\ UnchangedHistory(g_in))
    => g_all = ConcatPages(g_in, Len(g_in.pages))

\* C34: within one get_branch_with_fallback call validate_branch is invoked at
\* most once per distinct branch name, so the branch returned from step 3 is
\* not one whose validation failed earlier in the same call; also when the
\* preferred branch is one of main, master, develop, trunk and differs from
\* the detected default.
C34_ValidatedOncePerBranch ==
    FallbackDone =>
        /\ \A i, j \in 1..Len(b_vlog) :
              i < j => b_vlog[i].branch # b_vlog[j].branch
        /\ b_call.step = 3 =>
              \A i \in 1..Len(b_vlog) :
                  b_vlog[i].branch = b_call.ret => b_vlog[i].ret

\* The step stores for repository k the value of an answered metadata request
\* for k: the default_branch field, or 'main' when the field is absent.
StoresMetadataValue(k) ==
    /\ b_call'.repo = k
    /\ b_call'.op \in {"detect_default_branch", "get_branch_with_fallback"}
    /\ b_call'.requested
    /\ b_call'.info \notin {InfoFail, NoInfo}
    /\ b_cache'[k] = IF b_call'.info = InfoAbsent THEN "main" ELSE b_call'.info

\* The step stores for repository k the candidate of the fallback search that
\* has just validated for k.
StoresValidatedCandidate(k) ==
    /\ b_call'.repo = k
    /\ b_call'.op = "get_branch_with_fallback"
    /\ b_call'.pc = "done" /\ b_call'.step = 3
    /\ b_cache'[k] = b_call'.ret
    /\ b_call'.ret \in Range(CommonBranches)
    /\ b_vlog' = Append(b_vlog, [branch |-> b_call'.ret, ret |-> TRUE])

\* The entry of k is what a successful detection stored, or a candidate that
\* replaced it.
HoldsStoredValue(k) ==
    IF b_replaced[k]
    THEN b_cache[k] \in Range(CommonBranches)
    ELSE b_first[k] # NoBranch /\ b_cache[k] = b_first[k]

\* C35: after any sequence of detect_default_branch, get_branch_with_fallback
\* and clear_cache calls every cache entry of a repository holds the value of
\* a successful metadata request for it ('main' when the field was absent) or
\* a candidate of main, master, develop, trunk that validated for it when it
\* was stored; the last-resort 'main' and the 'main' returned after a failed
\* metadata request are never stored.
C35_CacheEntries ==
    /\ [][\A k \in Repos :
            b_cache'[k] # b_cache[k] =>
                \/ b_call'.op = "clear_cache" /\ b_cache' = EmptyCache
                \/ StoresMetadataValue(k)
                \/ StoresValidatedCandidate(k)]_vars
    /\ [](\A k \in Repos : b_cache[k] # NoBranch => HoldsStoredValue(k))
    /\ []((FallbackDone /\ b_call.step = 4 /\ b_call.info = InfoFail)
            => b_cache[b_call.repo] = NoBranch)

\* A last-resort 'main' after a failed metadata request, while the other
\* repository's entry holds a validated candidate.
C35_Witness ==
    /\ FallbackDone /\ b_call.step = 4 /\ b_call.info = InfoFail
    /\ b_call.ret = "main"
    /\ b_cache[b_call.repo] = NoBranch
    /\ \E k \in Repos : b_replaced[k] /\ b_cache[k] = "master"

\* A detect_default_branch has just run and its metadata request failed.
FailedDetection ==
    /\ Detected
    /\ b_call.requested
    /\ b_call.info = InfoFail

\* C36: a detect_default_branch call whose metadata request fails returns
\* 'main' and leaves the branch cache unchanged, so the next
\* detect_default_branch call for the same repository issues a metadata
\* request again instead of returning a cached 'main'.
C36_FailedDetectionNotCached ==
    /\ [][(FailedDetection' /\ b_call' # b_call) => b_cache' = b_cache]_vars
    /\ [](FailedDetection =>
            /\ b_call.default = "main"
            /\ b_cache[b_call.repo] = NoBranch)
    /\ [][(/\ FailedDetection
           /\ b_call.op = "detect_default_branch"
           /\ b_call'.op = "detect_default_branch"
           /\ b_call'.repo = b_call.repo)
          => b_call'.requested]_vars

\* A detect_default_branch on its own whose metadata request failed: it
\* returned 'main', its repository has no entry, and the entry of the other
\* repository is still there.
C36_Witness ==
    /\ FailedDetection
    /\ b_call.op = "detect_default_branch" /\ b_call.pc = "done"
    /\ b_call.ret = "main"
    /\ b_cache[b_call.repo] = NoBranch
    /\ \E k \in Repos : k # b_call.repo /\ b_cache[k] = "master"

\* C37: detect_default_branch, validate_branch and get_branch_with_fallback
\* called for one repository never add, change or remove the cache entry of
\* another repository, and validate_branch changes no cache entry at all: on
\* its own, and inside get_branch_with_fallback, where the only write that
\* follows a validation is the one of step 3 for the repository of the call.
C37_OtherEntriesUntouched ==
    /\ [][b_call'.op \in {"detect_default_branch", "validate_branch",
                          "get_branch_with_fallback"}
          => \A k \in Repos : k # b_call'.repo => b_cache'[k] = b_cache[k]]_vars
    /\ [][b_call'.op = "validate_branch" => b_cache' = b_cache]_vars
    /\ [][(/\ b_call.pc \in {"preferred", "default", "common"}
           /\ b_vlog' # b_vlog /\ b_cache' # b_cache)
          => /\ b_call'.op = "get_branch_with_fallback"
             /\ b_call'.pc = "done" /\ b_call'.step = 3
             /\ b_cache' = [b_cache EXCEPT ![b_call'.repo] = b_call'.ret]]_vars

\* A get_branch_with_fallback that stored the candidate master for its
\* repository while the other repository's entry holds the metadata value
\* feature.
C37_Witness ==
    /\ FallbackDone /\ b_call.step = 3
    /\ b_call.ret = "master"
    /\ b_cache[b_call.repo] = "master"
    /\ \E k \in Repos : k # b_call.repo /\ b_cache[k] = "feature"

\* The last collection got as far as listing the commits.
CameToList ==
    /\ c_last.made
    /\ c_last.env.parse
    /\ c_last.env.info

\* No resolver call was made and nothing was validated: the first request of
\* the collection is the one for the repository's metadata.
NothingResolved ==
    /\ c_last.result.resolved.calls = <<>>
    /\ c_last.result.resolved.validated = <<>>
    /\ c_last.result.calls[1] = Call("get_repository_info", NoBranch)
    /\ c_cache = EmptyCache

\* C38: when the configuration gives no branch, with auto-detection enabled
\* the branch listed is the value of detect_default_branch, taken without any
\* validate_branch call and without the fallback chain, and with
\* auto-detection disabled it is 'main' and no branch-resolution request is
\* issued; with auto-detection disabled an explicit branch is listed verbatim
\* without validation.
C38_BranchWithoutValidation ==
    CameToList =>
        LET pinned == c_last.config.branch
            listed == ListedBranch(c_last.result.calls)
        IN  /\ (pinned = NoBranch /\ c_cfg.auto_detect_branch) =>
                  /\ listed = detect_default_branch(EmptyCache, c_last.config.url,
                                                    c_last.env.default).ret
                  /\ c_last.result.resolved.calls =
                        <<Call("detect_default_branch", NoBranch)>>
                  /\ c_last.result.resolved.validated = <<>>
            /\ (pinned = NoBranch /\ ~c_cfg.auto_detect_branch) =>
                  /\ listed = "main"
                  /\ NothingResolved
            /\ (pinned # NoBranch /\ ~c_cfg.auto_detect_branch) =>
                  /\ listed = pinned
                  /\ NothingResolved

\* No branch given, auto-detection enabled: the metadata names feature, which
\* would not validate, and feature is listed.
C38_Witness ==
    /\ CameToList
    /\ c_last.config.branch = NoBranch
    /\ c_cfg.auto_detect_branch
    /\ c_last.env.default = "feature"
    /\ c_last.env.valid = {"main"}
    /\ ListedBranch(c_last.result.calls) = "feature"

\* C39: when the retries are exhausted the error _make_request gives to its
\* caller is the failure of the last attempt itself (the HTTP error, the
\* network error or the rate-limit error), so get_team_members returns an
\* empty list when the team endpoint answers 404 and re-raises every other
\* HTTP error.
C39_LastFailureSurfaced ==
    (t_pc = "raised" /\ t_attempt >= 1) =>
        /\ t_result = LastOut
        /\ (LastOut.kind = "http" /\ LastOut.status = 404)
              => get_team_members(t_result) = Returned(EmptyList)
        /\ (LastOut.kind = "http" /\ LastOut.status # 404)
              => get_team_members(t_result) = LastOut

\* The longest rate-limit wait: up to the latest reset time, and a second.
LongestWait == MaxReset + 1

\* C32: every call of collect_multiple_repositories over a finite list of
\* repositories with finitely many commits eventually returns; each
\* pagination loop ends, each request ends after at most 3 attempts, and
\* each rate-limit wait is finite.
C32_CallsEnd ==
    /\ (c_pc = "loop") ~> (c_pc = "returned")
    /\ (g_pc = "loop") ~> (g_pc \in {"returned", "raised"})
    /\ (t_pc = "check") ~> CallEnded
    /\ [](t_attempt <= StopAfterAttempt)
    /\ [](t_slept <= LongestWait)

\* A collect_multiple_repositories over the longest list has returned after
\* going through every repository, one of which failed.
C32_Witness ==
    /\ c_pc = "returned"
    /\ c_n = MaxFairRepos
    /\ c_i = MaxFairRepos
    /\ \E i \in 1..Len(c_log) : c_log[i].raised

====
